---- MODULE Spec2Model ----
(***************************************************************************)
(* IFC-Coordinator: the spatial tree model (App.tsx), its repair pass      *)
(* (sanitizeNodes), the mutation handlers, and the IFC importer            *)
(* (importIfc.ts), as a state machine over the host's `nodes` state.       *)
(*                                                                         *)
(* A JavaScript object Record<string, TreeNode> is modelled as a record    *)
(* [ord, at]: `at` is the key -> node function and `ord` the keys in       *)
(* insertion order (what Object.entries / Object.values iterate).          *)
(***************************************************************************)
EXTENDS Integers, Sequences, FiniteSets, TLC

VARIABLES
  nodes,        \* useState nodes: the committed tree (or the snapshot under repair)
  selectedId,   \* useState selectedId
  targets,      \* useState targetSiteId / targetBuildingId / targetStoreyId
  nextUid,      \* number of uid() calls made so far (uid() is fresh per call)
  timers,       \* setTimeout callbacks queued by addBuilding: building ids
  pc,           \* position of the process a specification follows
  last,         \* history: the ensure* calls of the last handler and their results
  ops,          \* number of handlers run so far
  ifcModel      \* the external model an import reads (hierarchy + attribute source)

vars == <<nodes, selectedId, targets, nextUid, timers, pc, last, ops, ifcModel>>

----------------------------------------------------------------------------
(* Values *)

\* JavaScript `undefined` for an optional string field
Undef == "<undefined>"

\* truthiness of an optional string ("" and undefined are falsy)
Truthy(s) == s # Undef /\ s # ""

\* a ?? b
Nullish(a, b) == IF a = Undef THEN b ELSE a

\* a || b
OrElse(a, b) == IF Truthy(a) THEN a ELSE b

NodeKind == {"Root", "Project", "Site", "Building", "Storey", "ClassGroup", "Object"}

NoIfc == [modelID |-> -1, expressID |-> -1, globalId |-> Undef, type |-> Undef]

\* a TreeNode literal; optional fields left out by the code are undefined
Node(id, kind, name, parentId, children) ==
  [id |-> id, kind |-> kind, name |-> name, parentId |-> parentId,
   children |-> children, ifcClass |-> Undef, tag |-> Undef, psets |-> <<>>,
   ifc |-> NoIfc]

RootNode == Node("root", "Root", "Workspace", Undef, <<>>)

----------------------------------------------------------------------------
(* JavaScript objects with insertion order *)

EmptyObj == [ord |-> <<>>, at |-> <<>>]

Keys(o) == DOMAIN o.at

Has(o, k) == k \in DOMAIN o.at

\* o[k] = v
Put(o, k, v) ==
  [ord |-> IF k \in DOMAIN o.at THEN o.ord ELSE Append(o.ord, k),
   at  |-> (k :> v) @@ o.at]

\* Object.values(o)
Values(o) == [i \in 1..Len(o.ord) |-> o.at[o.ord[i]]]

Range(s) == {s[i] : i \in 1..Len(s)}

Includes(s, x) == \E i \in 1..Len(s) : s[i] = x

\* s.filter(c => c !== x)
Without(s, x) == SelectSeq(s, LAMBDA c : c # x)

\* s.map(n => n.id)
MapIds(s) == [i \in 1..Len(s) |-> s[i].id]

----------------------------------------------------------------------------
(* sanitizeNodes: the repair pass *)

\* a step 1 that filters the children and leaves a dangling parentId in place
SanitizeEntry_Mutant(input, id) ==
  [input.at[id] EXCEPT !.children =
     SelectSeq(@, LAMBDA cid : Has(input, cid) /\ cid # id)]

\* step 1 for one entry: drop dangling and self-referential children, clear a
\* parentId whose node is not in the map
SanitizeEntry(input, id) ==
  LET n  == input.at[id]
      ch == SelectSeq(n.children, LAMBDA cid : Has(input, cid) /\ cid # id)
      pid == IF Truthy(n.parentId) /\ ~Has(input, n.parentId) THEN Undef ELSE n.parentId
  IN [n EXCEPT !.children = ch, !.parentId = pid]

\* step 3: root.children = the valid Project children, or else all Projects
RootChildren(out) ==
  LET root  == out.at["root"]
      valid == SelectSeq(root.children,
                         LAMBDA cid : Has(out, cid) /\ out.at[cid].kind = "Project")
      projects == MapIds(SelectSeq(Values(out), LAMBDA n : n.kind = "Project"))
  IN IF Len(valid) = 0 THEN projects ELSE valid

sanitizeNodes(input) ==
  LET out1 == [ord |-> input.ord,
               at  |-> [id \in DOMAIN input.at |-> SanitizeEntry(input, id)]]
      out2 == IF Has(out1, "root") THEN out1 ELSE Put(out1, "root", RootNode)
  IN Put(out2, "root", [out2.at["root"] EXCEPT !.children = RootChildren(out2)])

----------------------------------------------------------------------------
(* SpecRepair: sanitizeNodes applied to a snapshot parsed from localStorage *)

\* longest children list of a loaded snapshot's root
MaxKids == 2

\* all sequences over S of length at most n
RECURSIVE SeqsUpTo(_, _)
SeqsUpTo(S, n) ==
  IF n = 0 THEN {<<>>}
  ELSE LET shorter == SeqsUpTo(S, n - 1)
       IN shorter \cup {Append(s, x) : s \in {t \in shorter : Len(t) = n - 1}, x \in S}

Absent == [present |-> FALSE]

Loaded(n) == [present |-> TRUE, node |-> n]

\* entries a parsed snapshot may hold under key "root"
LoadedRoot ==
  {Absent} \cup
  {Loaded(Node("root", k, "Workspace", Undef, ch)) :
     k \in {"Root", "Project"}, ch \in SeqsUpTo({"root", "a", "b", "ghost"}, MaxKids)}

\* entries under key "a": a Project (whose id field may differ from its key) or a Site
LoadedA ==
  {Absent} \cup
  {Loaded(Node(i, "Project", "A", p, ch)) :
     i \in {"a", "zz"}, p \in {Undef, "root", "ghost"},
     ch \in {<<>>, <<"a">>, <<"ghost">>, <<"b">>}} \cup
  {Loaded(Node("a", "Site", "A", p, ch)) :
     p \in {Undef, "root", "ghost"}, ch \in {<<>>, <<"a">>, <<"ghost">>, <<"b">>}}

\* entries under key "b": a Project or an Object, with a tag, a class, a
\* property set and a document (docs?: AssetDocument[], held by its id)
LoadedB ==
  {Absent} \cup
  {Loaded([Node("b", k, "B", p, ch)
             EXCEPT !.tag = "T-1", !.ifcClass = "IfcPump",
                    !.psets = <<[name |-> "Pset_AssetCustom", props |-> <<>>]>>]
          @@ ("docs" :> <<"doc_1">>)) :
     k \in {"Project", "Object"}, p \in {Undef, "a", "ghost"}, ch \in {<<>>, <<"b">>}}

\* JSON.parse of the stored text: the entries in their stored order
Snapshot(r, a, b) ==
  LET o1 == IF r.present THEN Put(EmptyObj, "root", r.node) ELSE EmptyObj
      o2 == IF a.present THEN Put(o1, "a", a.node) ELSE o1
  IN IF b.present THEN Put(o2, "b", b.node) ELSE o2

NoTargets == [site |-> Undef, building |-> Undef, storey |-> Undef]

\* no IFC model loaded, no import in flight
NoModel == [modelID |-> 0, items |-> <<>>, snap |-> [ord |-> <<>>, at |-> <<>>], busy |-> FALSE]

InitRepair ==
  /\ nodes \in {Snapshot(r, a, b) : r \in LoadedRoot, a \in LoadedA, b \in LoadedB}
  /\ selectedId = "root"
  /\ targets = NoTargets
  /\ nextUid = 0
  /\ timers = <<>>
  /\ pc = "loaded"
  /\ last = [op |-> "load", before |-> EmptyObj]
  /\ ops = 0
  /\ ifcModel = NoModel

\* useState initialiser: sanitizeNodes(JSON.parse(raw))
Repair ==
  /\ pc = "loaded"
  /\ nodes' = sanitizeNodes(nodes)
  /\ last' = [op |-> "sanitizeNodes", before |-> nodes]
  /\ pc' = "repaired"
  /\ UNCHANGED <<selectedId, targets, nextUid, timers, ops, ifcModel>>

\* the next load of the persisted result: sanitizeNodes applied again
RepairAgain ==
  /\ pc = "repaired"
  /\ nodes' = sanitizeNodes(nodes)
  /\ last' = [op |-> "sanitizeNodes", before |-> nodes]
  /\ pc' = "repairedTwice"
  /\ UNCHANGED <<selectedId, targets, nextUid, timers, ops, ifcModel>>

NextRepair == Repair \/ RepairAgain

SpecRepair == InitRepair /\ [][NextRepair]_vars

\* C2: repair is idempotent: sanitizeNodes(sanitizeNodes(s)) = sanitizeNodes(s)
\* for every snapshot s
C2_RepairIdempotent ==
  pc = "repairedTwice" => nodes = last.before

\* C3: after repair every id in every node's children list (root's included)
\* is a key of the map and differs from the node's own key
C3_ChildrenExistNoSelf ==
  pc = "repaired" =>
    \A id \in Keys(nodes) :
      \A i \in 1..Len(nodes.at[id].children) :
        /\ Has(nodes, nodes.at[id].children[i])
        /\ nodes.at[id].children[i] # id

----------------------------------------------------------------------------
(* The host application (App.tsx): queries over a render's `nodes` *)

DefaultClass == "IfcBuildingElementProxy"

\* uid(prefix): a fresh id per call; n is the number of calls made before
uid(prefix, n) == prefix \o "_u" \o ToString(n)

\* a group id that leaves the class out
groupId_Mutant(storeyId, ifcClass) == storeyId \o "__group"

groupId(storeyId, ifcClass) == storeyId \o "__" \o ifcClass

\* nodes[id]?.kind
KindOf(n, id) == IF Has(n, id) THEN n.at[id].kind ELSE Undef

\* the `while (cur?.parentId)` walks: the id of the nearest proper ancestor of
\* kind k, or undefined
RECURSIVE AncestorOfKind(_, _, _, _)
AncestorOfKind(n, cur, k, fuel) ==
  IF fuel = 0 \/ ~Truthy(cur.parentId) \/ ~Has(n, cur.parentId) THEN Undef
  ELSE LET p == n.at[cur.parentId]
       IN IF p.kind = k THEN p.id ELSE AncestorOfKind(n, p, k, fuel - 1)

Fuel(n) == Len(n.ord) + 1

getSelectedProjectIdFrom(n, startId) ==
  IF ~Has(n, startId) THEN "project"
  ELSE IF n.at[startId].kind = "Project" THEN n.at[startId].id
  ELSE Nullish(AncestorOfKind(n, n.at[startId], "Project", Fuel(n)), "project")

selectedSiteId(n, sel) ==
  IF ~Has(n, sel) THEN Undef
  ELSE IF n.at[sel].kind = "Site" THEN n.at[sel].id
  ELSE AncestorOfKind(n, n.at[sel], "Site", Fuel(n))

selectedBuildingId(n, sel) ==
  IF ~Has(n, sel) THEN Undef
  ELSE IF n.at[sel].kind = "Building" THEN n.at[sel].id
  ELSE AncestorOfKind(n, n.at[sel], "Building", Fuel(n))

selectedStoreyId(n, sel) ==
  IF ~Has(n, sel) THEN Undef
  ELSE LET s == n.at[sel]
           par == IF Truthy(s.parentId) /\ Has(n, s.parentId) THEN s.parentId ELSE Undef
           gpar == IF par # Undef /\ Truthy(n.at[par].parentId) /\ Has(n, n.at[par].parentId)
                   THEN n.at[par].parentId ELSE Undef
       IN IF s.kind = "Storey" THEN s.id
          ELSE IF s.kind = "ClassGroup" /\ par # Undef /\ n.at[par].kind = "Storey"
               THEN n.at[par].id
          ELSE IF s.kind = "Object" /\ gpar # Undef /\ n.at[gpar].kind = "Storey"
               THEN n.at[gpar].id
          ELSE Undef

\* project.children.filter(cid => nodes[cid]?.kind === kind)
ChildrenOfKind(n, id, k) ==
  IF ~Has(n, id) THEN <<>>
  ELSE SelectSeq(n.at[id].children, LAMBDA cid : KindOf(n, cid) = k)

getSitesOfProject(n, pid) == ChildrenOfKind(n, pid, "Site")

getBuildingsOfSite(n, siteId) == ChildrenOfKind(n, siteId, "Building")

getStoreysOfBuilding(n, buildingId) == ChildrenOfKind(n, buildingId, "Storey")

----------------------------------------------------------------------------
(* One event handler: it reads the render's snapshot `snap` and queues      *)
(* updaters; h.st is the state the queued updaters have produced so far,    *)
(* h.uid the uid() calls made, h.ens the ensure* calls with their results,  *)
(* h.ret the last returned id, h.err whether a queued updater threw.        *)

Handler(st, n) == [st |-> st, uid |-> n, ens |-> <<>>, ret |-> Undef, err |-> FALSE]

Ensured(h, fn, anchor, id) ==
  [h EXCEPT !.ret = id, !.ens = Append(@, [fn |-> fn, anchor |-> anchor, id |-> id])]

\* setNodes(updater) where the updater dereferences prev[need]: it throws if
\* that entry is missing
Queue(h, need, next) ==
  IF h.err THEN h
  ELSE IF ~Has(h.st, need) THEN [h EXCEPT !.err = TRUE]
  ELSE [h EXCEPT !.st = next]

\* parent.children = [...parent.children, childId]
AppendChild(st, parentId, childId) ==
  Put(st, parentId, [st.at[parentId] EXCEPT !.children = Append(@, childId)])

ensureSite(h, snap, pid) ==
  LET sites == getSitesOfProject(snap, pid)
      sid == uid("site", h.uid)
      prev == h.st
      next == IF ~Has(prev, pid) \/ prev.at[pid].kind # "Project" THEN prev
              ELSE AppendChild(Put(prev, sid, Node(sid, "Site", "Site A", pid, <<>>)), pid, sid)
  IN IF Len(sites) > 0 THEN Ensured(h, "ensureSite", pid, sites[1])
     ELSE Ensured([h EXCEPT !.st = IF h.err THEN prev ELSE next, !.uid = @ + 1],
                  "ensureSite", pid, sid)

ensureBuilding(h, snap, siteId) ==
  LET buildings == getBuildingsOfSite(snap, siteId)
      bid == uid("building", h.uid)
      next == AppendChild(Put(h.st, bid, Node(bid, "Building", "Building 0", siteId, <<>>)),
                          siteId, bid)
  IN IF Len(buildings) > 0 THEN Ensured(h, "ensureBuilding", siteId, buildings[1])
     ELSE Ensured([Queue(h, siteId, next) EXCEPT !.uid = @ + 1],
                  "ensureBuilding", siteId, bid)

\* the Storey with its default ClassGroup, as ensureStorey and addStorey build it
WithNewStorey(st, sid, name, buildingId) ==
  LET gid == groupId(sid, DefaultClass)
      s1 == Put(st, sid, Node(sid, "Storey", name, buildingId, <<gid>>))
      s2 == Put(s1, gid, [Node(gid, "ClassGroup", DefaultClass, sid, <<>>)
                            EXCEPT !.ifcClass = DefaultClass])
  IN AppendChild(s2, buildingId, sid)

ensureStorey(h, snap, buildingId) ==
  LET storeys == getStoreysOfBuilding(snap, buildingId)
      sid == uid("storey", h.uid)
  IN IF Len(storeys) > 0 THEN Ensured(h, "ensureStorey", buildingId, storeys[1])
     ELSE Ensured([Queue(h, buildingId, WithNewStorey(h.st, sid, "Storey 0", buildingId))
                     EXCEPT !.uid = @ + 1],
                  "ensureStorey", buildingId, sid)

ensureClassGroup(h, storeyId, ifcClass) ==
  LET gid == groupId(storeyId, ifcClass)
      next == AppendChild(Put(h.st, gid, [Node(gid, "ClassGroup", ifcClass, storeyId, <<>>)
                                            EXCEPT !.ifcClass = ifcClass]),
                          storeyId, gid)
      h1 == IF h.err \/ Has(h.st, gid) THEN h ELSE Queue(h, storeyId, next)
  IN Ensured(h1, "ensureClassGroup", groupId(storeyId, ifcClass), gid)

\* a detach that leaves the old parent's children as they were
detachFromParent_Mutant(childId, parentId, draft) == draft

detachFromParent(childId, parentId, draft) ==
  IF ~Truthy(parentId) \/ ~Has(draft, parentId) THEN draft
  ELSE Put(draft, parentId, [draft.at[parentId] EXCEPT !.children = Without(@, childId)])

attachToParent(childId, parentId, draft) ==
  IF ~Has(draft, parentId) THEN draft
  ELSE AppendChild(draft, parentId, childId)

\* the updater shared by moveBuildingToSite (Building onto Site) and
\* moveStoreyToBuilding (Storey onto Building)
MoveSpatial(prev, id, targetId, kind, targetKind) ==
  IF ~Has(prev, id) \/ KindOf(prev, id) # kind THEN prev
  ELSE IF ~Has(prev, targetId) \/ KindOf(prev, targetId) # targetKind THEN prev
  ELSE IF prev.at[id].parentId = targetId THEN prev
  ELSE LET b  == prev.at[id]
           n1 == detachFromParent(id, b.parentId, prev)
           n2 == attachToParent(id, targetId, n1)
       IN Put(n2, id, [b EXCEPT !.parentId = targetId])

moveBuildingToSite(prev, buildingId, targetSiteId) ==
  MoveSpatial(prev, buildingId, targetSiteId, "Building", "Site")

moveStoreyToBuilding(prev, storeyId, targetBuildingId) ==
  MoveSpatial(prev, storeyId, targetBuildingId, "Storey", "Building")

moveObjectToGroup(prev, objectId, targetGroupId) ==
  IF ~Has(prev, objectId) \/ KindOf(prev, objectId) # "Object" THEN prev
  ELSE IF ~Has(prev, targetGroupId) \/ KindOf(prev, targetGroupId) # "ClassGroup" THEN prev
  ELSE IF ~Truthy(prev.at[objectId].parentId) THEN prev
  ELSE LET obj == prev.at[objectId]
           targetGroup == prev.at[targetGroupId]
           oldGroupId == obj.parentId
           n1 == IF KindOf(prev, oldGroupId) = "ClassGroup"
                 THEN Put(prev, oldGroupId,
                          [prev.at[oldGroupId] EXCEPT !.children = Without(@, objectId)])
                 ELSE prev
           \* targetGroup was read before the old group was rewritten
           n2 == Put(n1, targetGroupId,
                     [targetGroup EXCEPT !.children = Append(@, objectId)])
       IN Put(n2, objectId,
              [obj EXCEPT !.parentId = targetGroupId, !.ifcClass = targetGroup.ifcClass])

\* setNodes(updater) for an updater that cannot throw
Then(h, next) == IF h.err THEN h ELSE [h EXCEPT !.st = next]

\* a move that hangs the Storey on the Site itself, with no Building between
moveStoreyToSite_Mutant(h, snap, storeyId, targetSiteId) ==
  IF ~Has(h.st, storeyId) \/ KindOf(h.st, storeyId) # "Storey" THEN h
  ELSE
  Then(h, Put(attachToParent(storeyId, targetSiteId,
                             detachFromParent(storeyId, h.st.at[storeyId].parentId, h.st)),
              storeyId, [h.st.at[storeyId] EXCEPT !.parentId = targetSiteId]))

moveStoreyToSite(h, snap, storeyId, targetSiteId) ==
  LET h1 == ensureBuilding(h, snap, targetSiteId)
  IN Then(h1, moveStoreyToBuilding(h1.st, storeyId, h1.ret))

moveObjectToStorey(h, snap, objectId, targetStoreyId) ==
  IF ~Has(snap, objectId) \/ KindOf(snap, objectId) # "Object" THEN h
  ELSE LET h1 == ensureClassGroup(h, targetStoreyId,
                                  OrElse(snap.at[objectId].ifcClass, DefaultClass))
       IN Then(h1, moveObjectToGroup(h1.st, objectId, h1.ret))

moveObjectToBuilding(h, snap, objectId, targetBuildingId) ==
  LET h1 == ensureStorey(h, snap, targetBuildingId)
  IN moveObjectToStorey(h1, snap, objectId, h1.ret)

moveObjectToSite(h, snap, objectId, targetSiteId) ==
  LET h1 == ensureBuilding(h, snap, targetSiteId)
  IN moveObjectToBuilding(h1, snap, objectId, h1.ret)

\* moveManyObjectsToSite / ToBuilding / ToStorey / ToGroup: for (const id of objectIds)
RECURSIVE moveManyObjects(_, _, _, _, _)
moveManyObjects(h, snap, objectIds, targetId, targetKind) ==
  IF Len(objectIds) = 0 THEN h
  ELSE LET id == Head(objectIds)
           h1 == CASE targetKind = "Site" -> moveObjectToSite(h, snap, id, targetId)
                   [] targetKind = "Building" -> moveObjectToBuilding(h, snap, id, targetId)
                   [] targetKind = "Storey" -> moveObjectToStorey(h, snap, id, targetId)
                   [] OTHER -> Then(h, moveObjectToGroup(h.st, id, targetId))
       IN moveManyObjects(h1, snap, Tail(objectIds), targetId, targetKind)

----------------------------------------------------------------------------
(* Tag patterns. A pattern string is modelled as its sequence of tokens:    *)
(* [t |-> "lit", s |-> text], [t |-> "CLASS"], ..., [t |-> "N", w |-> width] *)
(* where w = 0 stands for {N} without a width.                              *)

Lit(text) == [t |-> "lit", s |-> text, w |-> 0]

Tok(name) == [t |-> name, s |-> "", w |-> 0]

TokN(width) == [t |-> "N", s |-> "", w |-> width]

\* useState defaults: batchTagPattern "{CLASS}-{N:3}", batchNamePattern "Pump {N}"
DefaultBatchTagPattern == <<Tok("CLASS"), Lit("-"), TokN(3)>>

DefaultBatchNamePattern == <<Lit("Pump "), TokN(0)>>

\* the classes of IFC_CLASS_OPTIONS the model offers in its selects
Classes == {DefaultClass, "IfcValve"}

normalizeClassShort(ifcClass) ==
  LET c == Nullish(ifcClass, DefaultClass)
  IN CASE c \in {"IfcPump"} -> "PUMP"
       [] c \in {"IfcValve"} -> "VALVE"
       [] c \in {"IfcTank"} -> "TANK"
       [] c \in {"IfcPipeSegment", "IfcPipeFitting"} -> "PIPE"
       [] c \in {"IfcBuildingElementProxy"} -> "PROXY"
       [] c = "IfcFlowMeter" -> "FLOWMETER"
       [] c = "IfcActuator" -> "ACTUATOR"
       [] c = "IfcSensor" -> "SENSOR"
       [] c = "IfcCableCarrierSegment" -> "CABLECARRIERSEGMENT"
       [] OTHER -> c

\* String(num).padStart(width, "0")
RECURSIVE padStart(_, _)
padStart(str, width) ==
  IF Len(str) >= width THEN str ELSE padStart("0" \o str, width)

\* a number rendered without its leading zeros
pad_Mutant(num, width) == ToString(num)

pad(num, width) == padStart(ToString(num), IF width > 1 THEN width ELSE 1)

\* the width of the first {N...} token, 0 when there is none or it has no width
parseNWidth(pattern) ==
  LET ns == SelectSeq(pattern, LAMBDA k : k.t = "N")
  IN IF Len(ns) = 0 THEN 0 ELSE ns[1].w

\* name.replace(/\s+/g, "") for the names the tree holds
StripSpaces(name) ==
  CASE name = "Site A" -> "SiteA"
    [] name = "Building A" -> "BuildingA"
    [] name = "Building 0" -> "Building0"
    [] name = "New Building" -> "NewBuilding"
    [] name = "Imported Project" -> "ImportedProject"
    [] \E k \in 0..9 : name = "Site " \o ToString(k) ->
         "Site" \o ToString(CHOOSE k \in 0..9 : name = "Site " \o ToString(k))
    [] \E k \in 0..9 : name = "Storey " \o ToString(k) ->
         "Storey" \o ToString(CHOOSE k \in 0..9 : name = "Storey " \o ToString(k))
    [] OTHER -> name

RECURSIVE Render(_, _, _)
Render(pattern, tokenMap, nStr) ==
  IF Len(pattern) = 0 THEN ""
  ELSE LET k == Head(pattern)
           piece == CASE k.t = "lit" -> k.s
                      [] k.t = "N" -> nStr
                      [] OTHER -> tokenMap[k.t]
       IN piece \o Render(Tail(pattern), tokenMap, nStr)

applyPattern(pattern, tokenMap, nValue) ==
  LET width == parseNWidth(pattern)
  IN Render(pattern, tokenMap, IF width > 0 THEN pad(nValue, width) ELSE ToString(nValue))

\* replN(pattern, n): pattern.replace(/\{N\}/g, String(n)); every other token
\* stays as it is written
RECURSIVE replN(_, _)
replN(pattern, n) ==
  IF Len(pattern) = 0 THEN ""
  ELSE LET k == Head(pattern)
           piece == CASE k.t = "lit" -> k.s
                      [] k.t = "N" /\ k.w = 0 -> ToString(n)
                      [] k.t = "N" -> "{N:" \o ToString(k.w) \o "}"
                      [] OTHER -> "{" \o k.t \o "}"
       IN piece \o replN(Tail(pattern), n)

\* a set of used tags that leaves the tree's tags out
existingTagsSet_Mutant(n) == {}

\* Object.values(nodes): the tags of the Objects that carry one
existingTagsSet(n) ==
  {n.at[id].tag : id \in {k \in Keys(n) : n.at[k].kind = "Object" /\ Truthy(n.at[k].tag)}}

----------------------------------------------------------------------------
(* importIfc.ts: the importer *)

\* a Pset: props is a function from keys to values
Pset(name, props) == [name |-> name, props |-> props]

\* the property-set names met, in localeCompare order
PsetNameOrder == <<"Pset", "Pset_AssetCustom", "Pset_Common">>

PsetNames(psets) == {psets[i].name : i \in 1..Len(psets)}

\* first loop of mergePsets: map.set(p.name, copy of p) for each old Pset, a
\* later Pset of the same name replacing an earlier one
OldProps(oldPsets, name) ==
  IF name \notin PsetNames(oldPsets) THEN <<>>
  ELSE oldPsets[CHOOSE i \in 1..Len(oldPsets) :
                  /\ oldPsets[i].name = name
                  /\ \A j \in (i + 1)..Len(oldPsets) : oldPsets[j].name # name].props

\* second loop of mergePsets for one name: {...cur.props, ...p.props}
RECURSIVE NewProps(_, _, _)
NewProps(cur, newPsets, name) ==
  IF Len(newPsets) = 0 THEN cur
  ELSE NewProps(IF Head(newPsets).name = name THEN Head(newPsets).props @@ cur ELSE cur,
                Tail(newPsets), name)

mergePsets(oldPsets, newPsets) ==
  LET names == SelectSeq(PsetNameOrder,
                         LAMBDA n : n \in PsetNames(oldPsets) \cup PsetNames(newPsets))
  IN [i \in 1..Len(names) |->
        Pset(names[i], NewProps(OldProps(oldPsets, names[i]), newPsets, names[i]))]

ensureNode(draft, id, fallback) == IF Has(draft, id) THEN draft ELSE Put(draft, id, fallback)

ensureChild(draft, parentId, childId) ==
  IF ~Has(draft, parentId) \/ Includes(draft.at[parentId].children, childId) THEN draft
  ELSE AppendChild(draft, parentId, childId)

\* {...existing, ...node, name, tag, ifcClass, psets, children}
Merged(existing, node) ==
  [node EXCEPT !.name = OrElse(existing.name, node.name),
               !.tag = Nullish(existing.tag, node.tag),
               !.ifcClass = Nullish(existing.ifcClass, node.ifcClass),
               !.psets = mergePsets(existing.psets, node.psets),
               !.children = IF Len(existing.children) > 0 THEN existing.children
                            ELSE node.children,
               !.ifc = IF node.ifc = NoIfc THEN existing.ifc ELSE node.ifc]

upsertNode(draft, node) ==
  IF ~Has(draft, node.id) THEN Put(draft, node.id, node)
  ELSE Put(draft, node.id, Merged(draft.at[node.id], node))

\* (sp.type || "").toUpperCase() for the type tags met
ToUpperCase(type) ==
  CASE type = "IfcSite" -> "IFCSITE"
    [] type = "IfcWall" -> "IFCWALL"
    [] type = Undef -> ""
    [] OTHER -> type

\* null is modelled as Undef
spatialKindFromIfcType(typeUpper) ==
  CASE typeUpper = "IFCPROJECT" -> "Project"
    [] typeUpper = "IFCSITE" -> "Site"
    [] typeUpper = "IFCBUILDING" -> "Building"
    [] typeUpper = "IFCBUILDINGSTOREY" -> "Storey"
    [] OTHER -> Undef

ifcClassForElement(typeUpper) ==
  IF typeUpper = "IFCBUILDINGELEMENTPROXY" THEN "IfcBuildingElementProxy"
  ELSE "IfcBuildingElementProxy"

stableSpatialId(kind, globalId, expressID) ==
  LET key == Nullish(globalId, ToString(expressID))
  IN CASE kind = "Project" -> "ifc:project:" \o key
       [] kind = "Site" -> "ifc:site:" \o key
       [] kind = "Building" -> "ifc:building:" \o key
       [] kind = "Storey" -> "ifc:storey:" \o key
       [] OTHER -> "ifc:item:" \o key

\* `ifc:obj:${globalId ?? `${modelID}:${expressID}`}`
ObjId(modelID, globalId, expressID) ==
  "ifc:obj:" \o Nullish(globalId, ToString(modelID) \o ":" \o ToString(expressID))

\* a step of the walk that yields an id: the draft it leaves and the id
Got(draft, id) == [draft |-> draft, id |-> id]

\* if (!draft[id]) { upsertNode(draft, node); ensureChild(draft, parentId, id) }
Synthesized(draft, node) ==
  IF Has(draft, node.id) THEN draft
  ELSE ensureChild(upsertNode(draft, node), node.parentId, node.id)

SynthStoreyId(buildingId) == "ifc:storey:synthetic:" \o buildingId

\* a storey id taken from an allocator instead of the building id
ensureSyntheticStorey_Mutant(draft, buildingId) ==
  Got(Synthesized(draft, Node("ifc:storey:synthetic:" \o ToString(Cardinality(Keys(draft))),
                              "Storey", "Storey 0", buildingId, <<>>)),
      "ifc:storey:synthetic:" \o ToString(Cardinality(Keys(draft))))

ensureSyntheticStorey(draft, buildingId) ==
  Got(Synthesized(draft, Node(SynthStoreyId(buildingId), "Storey", "Storey 0", buildingId, <<>>)),
      SynthStoreyId(buildingId))

DefaultProjectId == "ifc:project:default"

SynthBuildingId == "ifc:building:synthetic:" \o DefaultProjectId

\* a fallback that names the placeholder storey without creating the chain
ensureFallbackSpatialContainers_Mutant(draft) == Got(draft, SynthStoreyId(SynthBuildingId))

ensureFallbackSpatialContainers(draft) ==
  ensureSyntheticStorey(
    Synthesized(Synthesized(draft, Node(DefaultProjectId, "Project", "Imported Project",
                                        "root", <<>>)),
                Node(SynthBuildingId, "Building", "Building 0", DefaultProjectId, <<>>)),
    SynthBuildingId)

\* parent?.kind === "Building" ? parent.id
\*   : parent?.parentId && draft[parent.parentId]?.kind === "Building" ? parent.parentId
\*   : undefined
ResolvedBuilding(draft, resolvedParentId) ==
  IF ~Has(draft, resolvedParentId) THEN Undef
  ELSE IF draft.at[resolvedParentId].kind = "Building" THEN draft.at[resolvedParentId].id
  ELSE IF /\ Truthy(draft.at[resolvedParentId].parentId)
          /\ Has(draft, draft.at[resolvedParentId].parentId)
          /\ draft.at[draft.at[resolvedParentId].parentId].kind = "Building"
       THEN draft.at[resolvedParentId].parentId
  ELSE Undef

\* let storeyId = currentStoreyId; if (!storeyId) { ... }
LeafStorey(draft, resolvedParentId, currentStoreyId) ==
  IF Truthy(currentStoreyId) THEN Got(draft, currentStoreyId)
  ELSE IF Truthy(ResolvedBuilding(draft, resolvedParentId))
       THEN ensureSyntheticStorey(draft, ResolvedBuilding(draft, resolvedParentId))
  ELSE ensureFallbackSpatialContainers(draft)

\* the ClassGroup inside the storey g.id, found or created
LeafGroup(g, className) ==
  Got(Synthesized(g.draft, [Node(groupId(g.id, className), "ClassGroup", className, g.id, <<>>)
                              EXCEPT !.ifcClass = className]),
      g.id)

IfcOf(modelID, item, typeUpper) ==
  [modelID |-> modelID, expressID |-> item.expressID, globalId |-> item.globalId,
   type |-> typeUpper]

\* the Object literal walk upserts for a leaf element
LeafNode(objId, classGroupId, className, modelID, item, typeUpper) ==
  [Node(objId, "Object", OrElse(Nullish(item.name, typeUpper), className), classGroupId, <<>>)
     EXCEPT !.ifcClass = className, !.tag = OrElse(item.tag, item.globalId),
            !.psets = item.psets, !.ifc = IfcOf(modelID, item, typeUpper)]

\* what one visit leaves: the draft, and the parentId and storeyId it hands
\* to the visits of the children
Visited(draft, parentId, storeyId) ==
  [draft |-> draft, parentId |-> parentId, storeyId |-> storeyId]

LeafObject(g, resolvedParentId, className, modelID, item, typeUpper) ==
  Visited(ensureChild(upsertNode(g.draft,
                                 LeafNode(ObjId(modelID, item.globalId, item.expressID),
                                          groupId(g.id, className), className, modelID, item,
                                          typeUpper)),
                      groupId(g.id, className),
                      ObjId(modelID, item.globalId, item.expressID)),
          resolvedParentId, g.id)

SpatialNode(myId, kind, resolvedParentId, modelID, item, typeUpper) ==
  [Node(myId, kind, OrElse(Nullish(item.name, typeUpper), kind), resolvedParentId, <<>>)
     EXCEPT !.ifc = IfcOf(modelID, item, typeUpper)]

VisitSpatial(draft, item, kind, myId, resolvedParentId, currentStoreyId, modelID, typeUpper) ==
  Visited(ensureChild(upsertNode(ensureNode(draft, resolvedParentId,
                                            Node(resolvedParentId, "Root", "Workspace", Undef, <<>>)),
                                 SpatialNode(myId, kind, resolvedParentId, modelID, item, typeUpper)),
                      resolvedParentId, myId),
          myId, IF kind = "Storey" THEN myId ELSE currentStoreyId)

\* the body of walk for one node of the hierarchy, without the recursion
VisitAs(draft, item, parentId, currentStoreyId, modelID, typeUpper, kind) ==
  IF kind # Undef
  THEN VisitSpatial(draft, item, kind, stableSpatialId(kind, item.globalId, item.expressID),
                    IF kind = "Project" THEN "root" ELSE Nullish(parentId, "root"),
                    currentStoreyId, modelID, typeUpper)
  ELSE LeafObject(LeafGroup(LeafStorey(draft, Nullish(parentId, "root"), currentStoreyId),
                            ifcClassForElement(typeUpper)),
                  Nullish(parentId, "root"), ifcClassForElement(typeUpper), modelID, item,
                  typeUpper)

Visit(draft, item, parentId, currentStoreyId, modelID) ==
  VisitAs(draft, item, parentId, currentStoreyId, modelID, ToUpperCase(item.type),
          spatialKindFromIfcType(ToUpperCase(item.type)))

\* The hierarchy is held as the sequence of its nodes in the order walk visits
\* them (depth first, parents before children); item.parent is the position
\* of the parent, 0 for the node handed to the first call. passed[i] is what
\* the visit of node i hands to its children.
PassedTo(passed, parent) ==
  IF parent = 0 THEN [parentId |-> "root", storeyId |-> Undef] ELSE passed[parent]

RECURSIVE walk(_, _, _, _, _)
WalkOn(v, items, i, passed, modelID) ==
  walk(v.draft, items, i + 1,
       Append(passed, [parentId |-> v.parentId, storeyId |-> v.storeyId]), modelID)

walk(draft, items, i, passed, modelID) ==
  IF i > Len(items) THEN draft
  ELSE WalkOn(Visit(draft, items[i], PassedTo(passed, items[i].parent).parentId,
                    PassedTo(passed, items[i].parent).storeyId, modelID),
              items, i, passed, modelID)

\* items = <<>> stands for a loader without a spatial structure
importIfcIntoCoordinator(modelID, items, n) ==
  IF Len(items) = 0 THEN ensureNode(n, "root", RootNode)
  ELSE walk(ensureNode(n, "root", RootNode), items, 1, <<>>, modelID)

----------------------------------------------------------------------------
(* Spec: the host application's handlers over the committed tree *)

\* uid() calls explored
MaxUid == 4

\* handlers run in one behaviour
MaxOps == 3

\* most Objects selected (dragged, bulk-edited) at once
MaxSel == 2

AssetPset == [name |-> "Pset_AssetCustom", props |-> <<>>]

\* useState initialiser without stored data: the default tree
DefaultTree ==
  LET g1 == groupId("storey_1", DefaultClass)
      t1 == Put(EmptyObj, "root", Node("root", "Root", "Workspace", Undef, <<"project">>))
      t2 == Put(t1, "project", Node("project", "Project", "IfcProject", "root", <<"site_1">>))
      t3 == Put(t2, "site_1", Node("site_1", "Site", "Site A", "project", <<"building_1">>))
      t4 == Put(t3, "building_1", Node("building_1", "Building", "Building A", "site_1", <<"storey_1">>))
      t5 == Put(t4, "storey_1", Node("storey_1", "Storey", "Storey 0", "building_1", <<g1>>))
  IN Put(t5, g1, [Node(g1, "ClassGroup", DefaultClass, "storey_1", <<>>)
                    EXCEPT !.ifcClass = DefaultClass])

\* an Object as createObject builds it
NewObject(id, name, tag, ifcClass, gid) ==
  [Node(id, "Object", name, gid, <<>>)
     EXCEPT !.tag = tag, !.ifcClass = ifcClass, !.psets = <<AssetPset>>]

\* useState initialiser with stored data: the tree an earlier session stored
\* after addSite and a batch createObject of two Objects (their ids are that
\* session's uid() values)
StoredTree ==
  LET g1 == groupId("storey_1", DefaultClass)
      t1 == AppendChild(Put(DefaultTree, "site_s0", Node("site_s0", "Site", "Site 1", "project", <<>>)),
                        "project", "site_s0")
      t2 == Put(t1, "obj_s1", NewObject("obj_s1", "Pump 1", "PROXY-001", DefaultClass, g1))
      t3 == Put(t2, "obj_s2", NewObject("obj_s2", "Pump 2", "PROXY-002", DefaultClass, g1))
  IN sanitizeNodes(Put(t3, g1, [t3.at[g1] EXCEPT !.children = <<"obj_s1", "obj_s2">>]))

Init ==
  /\ nodes \in {DefaultTree, StoredTree}
  /\ selectedId = "root"
  /\ targets = NoTargets
  /\ nextUid = 0
  /\ timers = <<>>
  /\ pc = "ready"
  /\ last = [ens |-> <<>>]
  /\ ops = 0
  /\ ifcModel = NoModel

\* the handler's queued updaters are applied; an updater that throws leaves
\* the committed tree as it was and takes the application down
CommitTo(h, then) ==
  /\ h.uid <= MaxUid
  /\ ops < MaxOps
  /\ ops' = ops + 1
  /\ nodes' = IF h.err THEN nodes ELSE h.st
  /\ nextUid' = h.uid
  /\ pc' = IF h.err THEN "crashed" ELSE then

Commit(h) == CommitTo(h, "ready")

\* useEffect on [nodes]: a selection that names no node falls back to root
Selection(id, after) ==
  IF Has(after, id) \/ after = nodes THEN id ELSE "root"

\* handleNodeClick
SelectNode ==
  /\ pc = "ready"
  /\ ops < MaxOps
  /\ ops' = ops + 1
  /\ \E id \in Keys(nodes) :
       /\ selectedId' = id
       /\ last' = [ens |-> <<>>]
  /\ UNCHANGED <<nodes, targets, nextUid, timers, pc, ifcModel>>

addSite ==
  /\ pc = "ready"
  /\ LET projectId == getSelectedProjectIdFrom(nodes, selectedId)
         sid == uid("site", nextUid)
         siteCount == Len(getSitesOfProject(nodes, projectId))
         h0 == Handler(nodes, nextUid + 1)
         next == IF ~Has(nodes, projectId) \/ nodes.at[projectId].kind # "Project" THEN nodes
                 ELSE AppendChild(Put(nodes, sid, Node(sid, "Site", "Site " \o ToString(siteCount),
                                                       projectId, <<>>)),
                                  projectId, sid)
         h == Then(h0, next)
     IN /\ Commit(h)
        /\ selectedId' = Selection(sid, h.st)
        /\ last' = [ens |-> h.ens]
  /\ UNCHANGED <<targets, timers, ifcModel>>

addBuilding ==
  /\ pc = "ready"
  /\ LET h0 == Handler(nodes, nextUid)
         sel == selectedSiteId(nodes, selectedId)
         h1 == IF sel # Undef THEN [h0 EXCEPT !.ret = sel]
               ELSE ensureSite(h0, nodes, getSelectedProjectIdFrom(nodes, selectedId))
         siteId == h1.ret
         id == uid("building", h1.uid)
         h2 == [h1 EXCEPT !.uid = @ + 1]
         h == Queue(h2, siteId,
                    AppendChild(Put(h2.st, id, Node(id, "Building", "New Building", siteId, <<>>)),
                                siteId, id))
     IN /\ Commit(h)
        /\ selectedId' = Selection(id, h.st)
        /\ timers' = Append(timers, id)
        /\ last' = [ens |-> h.ens]
  /\ UNCHANGED <<targets, ifcModel>>

\* setTimeout(() => ensureStorey(id), 0) of addBuilding. Its closure holds the
\* render in which addBuilding ran, where the new Building is not in the map,
\* so getStoreysOfBuilding finds nothing there.
addBuildingTimer ==
  /\ pc \in {"ready", "modal"}
  /\ Len(timers) > 0
  /\ LET h == ensureStorey(Handler(nodes, nextUid), EmptyObj, Head(timers))
     IN /\ CommitTo(h, pc)
        /\ selectedId' = Selection(selectedId, h.st)
        /\ last' = [ens |-> h.ens]
  /\ timers' = Tail(timers)
  /\ UNCHANGED <<targets, ifcModel>>

addStorey ==
  /\ pc = "ready"
  /\ LET buildingId == selectedBuildingId(nodes, selectedId)
         sid == uid("storey", nextUid)
         storeyCount == Len(getStoreysOfBuilding(nodes, buildingId))
         h == Queue(Handler(nodes, nextUid + 1), buildingId,
                    WithNewStorey(nodes, sid, "Storey " \o ToString(storeyCount), buildingId))
     IN /\ buildingId # Undef
        /\ Commit(h)
        /\ selectedId' = Selection(sid, h.st)
        /\ last' = [ens |-> h.ens]
  /\ UNCHANGED <<targets, timers, ifcModel>>

\* ids a drag payload of type k may carry: the nodes of kind k (dragged in
\* the tree), one node of another kind and one id the tree lacks (a payload
\* is parsed from the drag data and only its shape is checked)
DragIds(k) ==
  {id \in Keys(nodes) : nodes.at[id].kind = k} \cup {"ghost"} \cup
  {IF k = "Storey" THEN "building_1" ELSE "storey_1"}

ObjectIds(n) == {id \in Keys(n) : n.at[id].kind = "Object"}

\* sequences of distinct elements of S, of length 1..n
RECURSIVE DistinctSeqs(_, _)
DistinctSeqs(S, n) ==
  IF n = 0 THEN {}
  ELSE {<<x>> : x \in S} \cup
       UNION {{<<x>> \o t : t \in {u \in DistinctSeqs(S, n - 1) : ~Includes(u, x)}} : x \in S}

\* payloads of type Object: one id of any kind, or the selected Objects
ObjectPayloads ==
  {<<x>> : x \in DragIds("Object")} \cup DistinctSeqs(ObjectIds(nodes), MaxSel)

isDropTarget(k) == k \in {"Site", "Building", "Storey", "ClassGroup"}

\* onDrop with a payload of type Object
dropObjects ==
  /\ pc = "ready"
  /\ \E targetId \in Keys(nodes), ids \in ObjectPayloads :
       LET kind == nodes.at[targetId].kind
           h == moveManyObjects(Handler(nodes, nextUid), nodes, ids, targetId, kind)
       IN /\ isDropTarget(kind)
          /\ Commit(h)
          /\ selectedId' = Selection(ids[1], h.st)
          /\ last' = [ens |-> h.ens]
  /\ UNCHANGED <<targets, timers, ifcModel>>

\* onDrop with a payload of type Building
dropBuilding ==
  /\ pc = "ready"
  /\ \E targetId \in Keys(nodes), id \in DragIds("Building") :
       LET kind == nodes.at[targetId].kind
           h0 == Handler(nodes, nextUid)
           h == IF kind = "Site" THEN Then(h0, moveBuildingToSite(nodes, id, targetId)) ELSE h0
       IN /\ isDropTarget(kind)
          /\ Commit(h)
          /\ last' = [ens |-> h.ens]
  /\ UNCHANGED <<selectedId, targets, timers, ifcModel>>

\* onDrop with a payload of type Storey
dropStorey ==
  /\ pc = "ready"
  /\ \E targetId \in Keys(nodes), id \in DragIds("Storey") :
       LET kind == nodes.at[targetId].kind
           h0 == Handler(nodes, nextUid)
           h1 == IF kind = "Building" THEN Then(h0, moveStoreyToBuilding(nodes, id, targetId))
                 ELSE h0
           h == IF kind = "Site" THEN moveStoreyToSite(h1, nodes, id, targetId) ELSE h1
       IN /\ isDropTarget(kind)
          /\ Commit(h)
          /\ selectedId' = Selection(selectedId, h.st)
          /\ last' = [ens |-> h.ens]
  /\ UNCHANGED <<targets, timers, ifcModel>>

\* Objects one batch creates at most
MaxBatch == 2

\* a ?? ensure...(): the ensure call is only made when a is null or undefined
OrEnsure(h, known, ensured) == IF known # Undef THEN [h EXCEPT !.ret = known] ELSE ensured

\* targetXId ?? selectedXId ?? ensureX(...) for Site, Building and Storey
Resolved(sid, bid, h3) == [h |-> h3, sid |-> sid, bid |-> bid, stid |-> h3.ret]

ResolveStorey(sid, h2, snap, sel, tg) ==
  Resolved(sid, h2.ret, OrEnsure(h2, Nullish(tg.storey, selectedStoreyId(snap, sel)),
                                 ensureStorey(h2, snap, h2.ret)))

ResolveBuilding(h1, snap, sel, tg) ==
  ResolveStorey(h1.ret, OrEnsure(h1, Nullish(tg.building, selectedBuildingId(snap, sel)),
                                 ensureBuilding(h1, snap, h1.ret)),
                snap, sel, tg)

ResolveTargets(h, snap, sel, tg) ==
  ResolveBuilding(OrEnsure(h, Nullish(tg.site, selectedSiteId(snap, sel)),
                           ensureSite(h, snap, getSelectedProjectIdFrom(snap, sel))),
                  snap, sel, tg)

OpenWith(r, h) ==
  /\ CommitTo(h, "modal")
  /\ targets' = [site |-> r.sid, building |-> r.bid, storey |-> r.stid]
  /\ selectedId' = Selection(selectedId, h.st)
  /\ last' = [ens |-> h.ens]

OpenAt(r) == OpenWith(r, ensureClassGroup(r.h, r.stid, DefaultClass))

openAddObject ==
  /\ pc = "ready"
  /\ OpenAt(ResolveTargets(Handler(nodes, nextUid), nodes, selectedId, NoTargets))
  /\ UNCHANGED <<timers, ifcModel>>

getAllSites(n, sel) == getSitesOfProject(n, getSelectedProjectIdFrom(n, sel))

RECURSIVE FlatMap(_, _, _)
FlatMap(n, ids, k) ==
  IF Len(ids) = 0 THEN <<>> ELSE ChildrenOfKind(n, Head(ids), k) \o FlatMap(n, Tail(ids), k)

getAllBuildings(n, sel) == FlatMap(n, getAllSites(n, sel), "Building")

getAllStoreys(n, sel) == FlatMap(n, getAllBuildings(n, sel), "Storey")

\* a clearable Select over the listed ids
Choices(ids) == Range(ids) \cup {Undef}

\* Target Site select of the Add Object modal
setTargetSite ==
  /\ pc = "modal"
  /\ ops < MaxOps
  /\ ops' = ops + 1
  /\ \E v \in Choices(getAllSites(nodes, selectedId)) :
       targets' = [site |-> v, building |-> Undef, storey |-> Undef]
  /\ last' = [ens |-> <<>>]
  /\ UNCHANGED <<nodes, selectedId, nextUid, timers, pc, ifcModel>>

\* Target Building select
setTargetBuilding ==
  /\ pc = "modal"
  /\ ops < MaxOps
  /\ ops' = ops + 1
  /\ \E v \in Choices(IF Truthy(targets.site) THEN getBuildingsOfSite(nodes, targets.site)
                      ELSE getAllBuildings(nodes, selectedId)) :
       targets' = [targets EXCEPT !.building = v, !.storey = Undef]
  /\ last' = [ens |-> <<>>]
  /\ UNCHANGED <<nodes, selectedId, nextUid, timers, pc, ifcModel>>

\* Target Storey select
setTargetStorey ==
  /\ pc = "modal"
  /\ ops < MaxOps
  /\ ops' = ops + 1
  /\ \E v \in Choices(IF Truthy(targets.building) THEN getStoreysOfBuilding(nodes, targets.building)
                      ELSE getAllStoreys(nodes, selectedId)) :
       targets' = [targets EXCEPT !.storey = v]
  /\ last' = [ens |-> <<>>]
  /\ UNCHANGED <<nodes, selectedId, nextUid, timers, pc, ifcModel>>

\* Modal onClose
closeAddObject ==
  /\ pc = "modal"
  /\ ops < MaxOps
  /\ ops' = ops + 1
  /\ pc' = "ready"
  /\ last' = [ens |-> <<>>]
  /\ UNCHANGED <<nodes, selectedId, targets, nextUid, timers, ifcModel>>

\* the modal's fields when Create is pressed
Form(mode, name, tag, ifcClass, count, generateTags) ==
  [mode |-> mode, name |-> name, tag |-> tag, ifcClass |-> ifcClass, count |-> count,
   namePattern |-> DefaultBatchNamePattern, generateTags |-> generateTags,
   tagPattern |-> DefaultBatchTagPattern, start |-> 1, step |-> 1,
   skipExisting |-> TRUE, custom |-> "X"]

\* Create is disabled while the single name is blank or the batch count is < 1
Forms ==
  {Form("single", "V-1", tag, c, 1, TRUE) : tag \in {"", "T-1"}, c \in Classes} \cup
  {Form("batch", "", "", c, k, g) : c \in Classes, k \in 1..MaxBatch, g \in BOOLEAN}

\* the single-mode updater of createObject
CreateSingle(prev, id, f, gid) ==
  LET n1 == Put(prev, id, NewObject(id, f.name, OrElse(f.tag, Undef), f.ifcClass, gid))
  IN IF Has(n1, gid) /\ n1.at[gid].kind = "ClassGroup" THEN AppendChild(n1, gid, id) ELSE n1

NameOr(prev, id, dflt) == StripSpaces(IF Has(prev, id) THEN prev.at[id].name ELSE dflt)

TokenMap(prev, f, t) ==
  [CLASS |-> normalizeClassShort(f.ifcClass),
   SITE |-> NameOr(prev, t.sid, "SITE"),
   BLDG |-> NameOr(prev, t.bid, "BLDG"),
   STRY |-> NameOr(prev, t.stid, "STRY"),
   CUSTOM |-> StripSpaces(f.custom)]

\* let candidate = applyPattern(...); while (tagSkipExisting && used.has(candidate))
\* { nCounter += step; candidate = applyPattern(...) }. A candidate that is
\* still taken after every used tag could have been skipped once never changes
\* (step 0): the loop does not end.
RECURSIVE FreeTag(_, _, _, _, _, _)
Probe(pattern, tokenMap, n, step, used, fuel, candidate) ==
  IF candidate \notin used THEN [n |-> n, tag |-> candidate, hang |-> FALSE]
  ELSE IF fuel = 0 THEN [n |-> n, tag |-> candidate, hang |-> TRUE]
  ELSE FreeTag(pattern, tokenMap, n + step, step, used, fuel - 1)

FreeTag(pattern, tokenMap, n, step, used, fuel) ==
  Probe(pattern, tokenMap, n, step, used, fuel, applyPattern(pattern, tokenMap, n))

\* the for loop of the batch updater: rounds i..count-1
RECURSIVE BatchLoop(_, _, _, _, _, _, _, _, _)
BatchRound(prev, next, i, nCounter, used, created, u, f, t, id, fc) ==
  IF f.generateTags /\ fc.hang
  THEN [st |-> next, created |-> created, uid |-> u + 1, hang |-> TRUE]
  ELSE BatchLoop(prev,
                 Put(next, id,
                     NewObject(id, OrElse(replN(f.namePattern, i + 1), "Object " \o ToString(i + 1)),
                               IF f.generateTags THEN fc.tag ELSE Undef, f.ifcClass, t.gid)),
                 i + 1,
                 IF f.generateTags THEN fc.n + f.step ELSE nCounter,
                 IF f.generateTags THEN used \cup {fc.tag} ELSE used,
                 Append(created, id), u + 1, f, t)

BatchLoop(prev, next, i, nCounter, used, created, u, f, t) ==
  IF i >= f.count THEN [st |-> next, created |-> created, uid |-> u, hang |-> FALSE]
  ELSE BatchRound(prev, next, i, nCounter, used, created, u, f, t, uid("obj", u),
                  FreeTag(f.tagPattern, TokenMap(prev, f, t), nCounter, f.step,
                          IF f.skipExisting THEN used ELSE {}, Cardinality(used) + 1))

\* const group = next[gid] is read before the loop; afterwards
\* next[gid] = {...group, children: [...group.children, ...createdIds]}
BatchDone(prev, gid, r) ==
  IF Has(prev, gid) /\ prev.at[gid].kind = "ClassGroup"
  THEN [r EXCEPT !.st = Put(r.st, gid, [prev.at[gid] EXCEPT !.children = @ \o r.created])]
  ELSE r

\* the batch-mode updater of createObject
CreateBatch(prev, snap, u, f, t) ==
  BatchDone(prev, t.gid,
            BatchLoop(prev, prev, 0, f.start,
                      IF f.skipExisting THEN existingTagsSet(snap) ELSE {}, <<>>, u, f, t))

\* what createObject leaves: the handler context, the id it selects and
\* whether the tag loop hangs
Created(h, first, hang) == [h |-> h, first |-> first, hang |-> hang]

CreatedBatch(h4, b) ==
  IF h4.err THEN Created(h4, selectedId, FALSE)
  ELSE Created(Then([h4 EXCEPT !.uid = b.uid], b.st),
               IF Len(b.created) > 0 THEN b.created[1] ELSE selectedId, b.hang)

CreateIn(f, t, h4) ==
  IF f.mode = "single"
  THEN Created(Then([h4 EXCEPT !.uid = @ + 1],
                    CreateSingle(h4.st, uid("obj", h4.uid), f, t.gid)),
               uid("obj", h4.uid), FALSE)
  ELSE CreatedBatch(h4, CreateBatch(h4.st, nodes, h4.uid, f, t))

CreateAt(f, r) ==
  CreateIn(f, [sid |-> r.sid, bid |-> r.bid, stid |-> r.stid, gid |-> groupId(r.stid, f.ifcClass)],
           ensureClassGroup(r.h, r.stid, f.ifcClass))

\* batch: createdIds is filled when the updater runs, which may be before or
\* after setSelectedId(createdIds[0] ?? selectedId) reads it
CreateCommit(f, c) ==
  /\ CommitTo(c.h, IF c.hang THEN "hung" ELSE "ready")
  /\ selectedId' \in {Selection(c.first, c.h.st)} \cup
                     (IF f.mode = "batch" THEN {Selection(selectedId, c.h.st)} ELSE {})
  /\ last' = [ens |-> c.h.ens]

createObject ==
  /\ pc = "modal"
  /\ \E f \in Forms :
       CreateCommit(f, CreateAt(f, ResolveTargets(Handler(nodes, nextUid), nodes, selectedId, targets)))
  /\ UNCHANGED <<targets, timers, ifcModel>>

\* the IFC Class select of the details panel
setSelectedIfcClass ==
  /\ pc = "ready"
  /\ Has(nodes, selectedId)
  /\ nodes.at[selectedId].kind = "Object"
  /\ selectedStoreyId(nodes, selectedId) # Undef
  /\ \E newIfcClass \in Classes :
       LET h1 == ensureClassGroup(Handler(nodes, nextUid), selectedStoreyId(nodes, selectedId),
                                  newIfcClass)
           h == Then(h1, moveObjectToGroup(h1.st, selectedId, h1.ret))
       IN /\ Commit(h)
          /\ last' = [ens |-> h.ens]
  /\ UNCHANGED <<selectedId, targets, timers, ifcModel>>

\* for (const oid of ids) of bulkApplyIfcClass
RECURSIVE ApplyIfcClass(_, _, _, _)
ApplyIfcClass(h, snap, ids, bulkIfcClass) ==
  IF Len(ids) = 0 THEN h
  ELSE LET oid == Head(ids)
           obj == snap.at[oid]
           storeyId == IF Truthy(obj.parentId) /\ Has(snap, obj.parentId)
                       THEN snap.at[obj.parentId].parentId ELSE Undef
           h1 == ensureClassGroup(h, storeyId, bulkIfcClass)
           h2 == IF ~Has(snap, oid) \/ KindOf(snap, oid) # "Object" \/ ~Truthy(storeyId) THEN h
                 ELSE Then(h1, moveObjectToGroup(h1.st, oid, h1.ret))
       IN ApplyIfcClass(h2, snap, Tail(ids), bulkIfcClass)

bulkApplyIfcClass ==
  /\ pc = "ready"
  /\ \E ids \in DistinctSeqs(ObjectIds(nodes), MaxSel), bulkIfcClass \in Classes :
       LET h == ApplyIfcClass(Handler(nodes, nextUid), nodes, ids, bulkIfcClass)
       IN /\ Commit(h)
          /\ last' = [ens |-> h.ens]
  /\ UNCHANGED <<selectedId, targets, timers, ifcModel>>

Next ==
  \/ SelectNode
  \/ addSite
  \/ addBuilding
  \/ addBuildingTimer
  \/ addStorey
  \/ dropObjects
  \/ dropBuilding
  \/ dropStorey
  \/ openAddObject
  \/ setTargetSite
  \/ setTargetBuilding
  \/ setTargetStorey
  \/ closeAddObject
  \/ createObject
  \/ setSelectedIfcClass
  \/ bulkApplyIfcClass

Spec == Init /\ [][Next]_vars

----------------------------------------------------------------------------
(* Claims about the handlers *)

\* parentId and children agree in both directions
Bidirectional(n) ==
  /\ \A id \in Keys(n) \ {"root"} :
       /\ Truthy(n.at[id].parentId)
       /\ Has(n, n.at[id].parentId)
       /\ Includes(n.at[n.at[id].parentId].children, id)
  /\ \A p \in Keys(n) :
       \A i \in 1..Len(n.at[p].children) :
         /\ Has(n, n.at[p].children[i])
         /\ n.at[n.at[p].children[i]].parentId = p

\* C1: after any sequence of committed mutation handlers from the initial
\* tree, every node but root has a parentId naming an existing node that lists
\* it, and every listed child exists and names the lister as its parent
C1_BidirectionalIntegrity == Bidirectional(nodes)

\* C1 witness: handlers have created nodes and moved an Object to a new group
C1_Witness ==
  /\ nextUid >= 2
  /\ \E id \in ObjectIds(nodes) :
       nodes.at[id].parentId # groupId("storey_1", DefaultClass)

\* ids tried as arguments of the move updaters
MoveArgs == Keys(nodes) \cup {"ghost"}

\* the kinds a move accepts: <<kind of the moved node, kind of the target>>
MoveKinds(op) ==
  CASE op = "moveBuildingToSite" -> <<"Building", "Site">>
    [] op = "moveStoreyToBuilding" -> <<"Storey", "Building">>
    [] OTHER -> <<"Object", "ClassGroup">>

MoveResult(op, id, target) ==
  CASE op = "moveBuildingToSite" -> moveBuildingToSite(nodes, id, target)
    [] op = "moveStoreyToBuilding" -> moveStoreyToBuilding(nodes, id, target)
    [] OTHER -> moveObjectToGroup(nodes, id, target)

MoveOps == {"moveBuildingToSite", "moveStoreyToBuilding", "moveObjectToGroup"}

\* an id is missing or a kind is wrong
MoveRejected(op, id, target) ==
  \/ ~Has(nodes, id)
  \/ ~Has(nodes, target)
  \/ KindOf(nodes, id) # MoveKinds(op)[1]
  \/ KindOf(nodes, target) # MoveKinds(op)[2]

\* C4 as stated: a rejected move returns the tree unchanged; every other move
\* leaves the moved id absent from the old parent's children, present in the
\* target's children, and the moved node's parentId equal to the target
C4_MoveContract ==
  \A op \in MoveOps, id \in MoveArgs, target \in MoveArgs :
    LET after == MoveResult(op, id, target)
        old == nodes.at[id].parentId
    IN IF MoveRejected(op, id, target) THEN after = nodes
       ELSE /\ (Truthy(old) /\ Has(nodes, old)) => ~Includes(after.at[old].children, id)
            /\ Includes(after.at[target].children, id)
            /\ after.at[id].parentId = target

\* C5: within one handler, ensure* calls with the same anchor return the same
\* id (so at most one child is created for that anchor)
C5_EnsureIdempotent ==
  \A i \in 1..Len(last.ens), j \in 1..Len(last.ens) :
    (last.ens[i].fn = last.ens[j].fn /\ last.ens[i].anchor = last.ens[j].anchor)
      => last.ens[i].id = last.ens[j].id

----------------------------------------------------------------------------
(* SpecImport: importIfcIntoCoordinator applied twice to one model *)

\* nodes in one hierarchy
MaxItems == 3

\* type tags as the loader reports them
TypeTags == {"IFCPROJECT", "IFCSITE", "IFCBUILDING", "IFCBUILDINGSTOREY", "IFCWALL", "IfcSite"}

\* node i of a hierarchy: its expressID is i; its GlobalId, when the lookup
\* gives one, is its own
Item(i, type, parent, hasGlobalId) ==
  [expressID |-> i, type |-> type, parent |-> parent,
   globalId |-> IF hasGlobalId THEN "G" \o ToString(i) ELSE Undef,
   name |-> Undef, tag |-> Undef, psets |-> <<>>]

\* node i and its ancestors
RECURSIVE Spine(_, _)
Spine(items, i) == IF i = 0 THEN {} ELSE {i} \cup Spine(items, items[i].parent)

\* hierarchies of n nodes in visiting order: a node's parent is the node
\* before it or one of that node's ancestors
RECURSIVE Hierarchies(_)
Hierarchies(n) ==
  IF n = 1 THEN {<<Item(1, t, 0, g)>> : t \in TypeTags, g \in BOOLEAN}
  ELSE UNION {{Append(h, Item(n, t, q, g)) : t \in TypeTags, g \in BOOLEAN, q \in Spine(h, n - 1)}
              : h \in Hierarchies(n - 1)}

Models == {<<>>} \cup UNION {Hierarchies(n) : n \in 1..MaxItems}

InitImport ==
  /\ nodes \in {EmptyObj, sanitizeNodes(EmptyObj), DefaultTree}
  /\ \E items \in Models : ifcModel = [NoModel EXCEPT !.items = items]
  /\ selectedId = "root"
  /\ targets = NoTargets
  /\ nextUid = 0
  /\ timers = <<>>
  /\ pc = "loaded"
  /\ last = [empty |-> nodes # DefaultTree, ids |-> {}]
  /\ ops = 0

ImportFirst ==
  /\ pc = "loaded"
  /\ nodes' = importIfcIntoCoordinator(ifcModel.modelID, ifcModel.items, nodes)
  /\ last' = [last EXCEPT !.ids = Keys(nodes')]
  /\ pc' = "imported"
  /\ UNCHANGED <<selectedId, targets, nextUid, timers, ops, ifcModel>>

ImportAgain ==
  /\ pc = "imported"
  /\ nodes' = importIfcIntoCoordinator(ifcModel.modelID, ifcModel.items, nodes)
  /\ pc' = "importedTwice"
  /\ UNCHANGED <<selectedId, targets, nextUid, timers, last, ops, ifcModel>>

NextImport == ImportFirst \/ ImportAgain

SpecImport == InitImport /\ [][NextImport]_vars

\* C7: importing a hierarchy into an empty tree and importing it again into
\* the result leaves the set of node ids as it was after the first import
C7_ImportIdentityIdempotent ==
  (pc = "importedTwice" /\ last.empty) => Keys(nodes) = last.ids

\* C7 witness: a second import of a hierarchy with a Building and a leaf
\* without GlobalId, into what was an empty tree
C7_Witness ==
  /\ pc = "importedTwice"
  /\ last.empty
  /\ Has(nodes, "ifc:building:G1")
  /\ Has(nodes, "ifc:obj:0:2")

\* the kind the walk gives node i, Undef for a leaf element
ItemKind(i) == spatialKindFromIfcType(ToUpperCase(ifcModel.items[i].type))

\* C10: after an import every leaf element has its Object, under a ClassGroup
\* under a Storey; a leaf with no Storey and no Building among its ancestors
\* is under the placeholder chain with the fixed ids
C10_NoLeafDropped ==
  pc \in {"imported", "importedTwice"} =>
    \A i \in 1..Len(ifcModel.items) :
      ItemKind(i) = Undef =>
        LET id == ObjId(ifcModel.modelID, ifcModel.items[i].globalId, i)
            gid == nodes.at[id].parentId
            sid == nodes.at[gid].parentId
        IN /\ Has(nodes, id) /\ nodes.at[id].kind = "Object"
           /\ Has(nodes, gid) /\ nodes.at[gid].kind = "ClassGroup"
           /\ Has(nodes, sid) /\ nodes.at[sid].kind = "Storey"
           /\ (\A a \in Spine(ifcModel.items, i) : ItemKind(a) \notin {"Storey", "Building"})
              => /\ sid = "ifc:storey:synthetic:ifc:building:synthetic:ifc:project:default"
                 /\ nodes.at[sid].parentId = "ifc:building:synthetic:ifc:project:default"
                 /\ Has(nodes, "ifc:building:synthetic:ifc:project:default")
                 /\ nodes.at["ifc:building:synthetic:ifc:project:default"].parentId
                      = "ifc:project:default"
                 /\ Has(nodes, "ifc:project:default")

\* C10 witness: a single leaf element imported into an empty tree
C10_Witness ==
  /\ pc = "imported"
  /\ nodes.ord = <<"root", "ifc:project:default", "ifc:building:synthetic:ifc:project:default",
                   "ifc:storey:synthetic:ifc:building:synthetic:ifc:project:default",
                   "ifc:storey:synthetic:ifc:building:synthetic:ifc:project:default__IfcBuildingElementProxy",
                   "ifc:obj:G1">>

----------------------------------------------------------------------------
(* SpecUpsert: upsertNode applied to a node whose id is already in the draft *)

\* existing property sets: none, the host's own set, imported sets, and two
\* imported sets of one name (safeGetPsets names every unnamed set "Pset" and
\* a first import stores its result as it is)
ExistingPsets ==
  {<<>>, <<AssetPset>>,
   <<Pset("Pset", "a" :> "1")>>,
   <<Pset("Pset", ("a" :> "1") @@ ("b" :> "1"))>>,
   <<Pset("Pset", "a" :> "1"), Pset("Pset_Common", "b" :> "1")>>,
   <<Pset("Pset", "a" :> "1"), Pset("Pset", "b" :> "1")>>}

IncomingPsets ==
  {<<>>,
   <<Pset("Pset", "a" :> "2")>>,
   <<Pset("Pset", "b" :> "2")>>,
   <<Pset("Pset_Common", "a" :> "2")>>,
   <<Pset("Pset", "a" :> "2"), Pset("Pset", "b" :> "2")>>}

UpsertId == "ifc:obj:G1"

UpsertGroup == groupId("storey_1", DefaultClass)

\* the node in the draft: an Object imported or created earlier, then edited
\* in the details panel (renameSelected and setSelectedTag store the text
\* field's value, the empty string included)
ExistingNodes ==
  {[Node(UpsertId, "Object", name, UpsertGroup, <<>>)
      EXCEPT !.tag = tag, !.ifcClass = c, !.psets = ps]
     : name \in {"", "Pump A"}, tag \in {Undef, "", "T-1"},
       c \in {Undef, "IfcValve"}, ps \in ExistingPsets}

\* the literal the walk hands to upsertNode
IncomingNodes ==
  {[Node(UpsertId, "Object", name, UpsertGroup, <<>>)
      EXCEPT !.tag = tag, !.ifcClass = c, !.psets = ps,
             !.ifc = [modelID |-> 0, expressID |-> 1, globalId |-> "G1", type |-> "IFCWALL"]]
     : name \in {"IFCWALL", "Wall 1"}, tag \in {Undef, "G1", "T-9"},
       c \in {Undef, DefaultClass}, ps \in IncomingPsets}

InitUpsert ==
  /\ \E e \in ExistingNodes, n \in IncomingNodes :
       /\ nodes = Put(EmptyObj, UpsertId, e)
       /\ last = [existing |-> e, incoming |-> n]
  /\ ifcModel = NoModel
  /\ selectedId = "root"
  /\ targets = NoTargets
  /\ nextUid = 0
  /\ timers = <<>>
  /\ pc = "drawn"
  /\ ops = 0

Upsert ==
  /\ pc = "drawn"
  /\ nodes' = upsertNode(nodes, last.incoming)
  /\ pc' = "upserted"
  /\ UNCHANGED <<selectedId, targets, nextUid, timers, last, ops, ifcModel>>

NextUpsert == Upsert

SpecUpsert == InitUpsert /\ [][NextUpsert]_vars

\* existing value if it is present (not undefined, not blank), else incoming
Kept(existing, incoming) == IF Truthy(existing) THEN existing ELSE incoming

\* blank and missing values are not told apart
Norm(v) == IF Truthy(v) THEN v ELSE Undef

\* C8: after an upsert onto an existing id, each of name, tag and ifcClass is
\* the existing value when that is present (non-blank) and the incoming value
\* otherwise
C8_UpsertKeepsPresentFields ==
  pc = "upserted" =>
    /\ Norm(nodes.at[UpsertId].name) = Norm(Kept(last.existing.name, last.incoming.name))
    /\ Norm(nodes.at[UpsertId].tag) = Norm(Kept(last.existing.tag, last.incoming.tag))
    /\ Norm(nodes.at[UpsertId].ifcClass)
         = Norm(Kept(last.existing.ifcClass, last.incoming.ifcClass))

\* the keys the sets called name have in psets
KeysNamed(psets, name) ==
  UNION {DOMAIN psets[i].props : i \in {j \in 1..Len(psets) : psets[j].name = name}}

\* the value the last set called name that has key k gives it
ValueNamed(psets, name, k) ==
  psets[CHOOSE i \in 1..Len(psets) :
          /\ psets[i].name = name /\ k \in DOMAIN psets[i].props
          /\ \A j \in (i + 1)..Len(psets) :
               ~(psets[j].name = name /\ k \in DOMAIN psets[j].props)].props[k]

\* C9: after an upsert onto an existing id the property sets are the
\* per-name union of existing and incoming sets: one set per name, its keys
\* the union of the existing and incoming keys under that name, with the
\* incoming value for a key the incoming sets have and the existing value for
\* a key only the existing sets have
C9_PsetsMergedPerName ==
  pc = "upserted" =>
    LET r == nodes.at[UpsertId].psets
        e == last.existing.psets
        n == last.incoming.psets
    IN /\ PsetNames(r) = PsetNames(e) \cup PsetNames(n)
       /\ \A i, j \in 1..Len(r) : r[i].name = r[j].name => i = j
       /\ \A i \in 1..Len(r) :
            /\ DOMAIN r[i].props = KeysNamed(e, r[i].name) \cup KeysNamed(n, r[i].name)
            /\ \A k \in DOMAIN r[i].props :
                 r[i].props[k] = IF k \in KeysNamed(n, r[i].name)
                                 THEN ValueNamed(n, r[i].name, k)
                                 ELSE ValueNamed(e, r[i].name, k)

----------------------------------------------------------------------------
(* SpecHost: the host application's handlers together with handleImportIfc *)

\* the models the host is given: a lone leaf element; a Project with a
\* Building and a leaf; a Storey with a leaf without GlobalId
HostModels ==
  {<<Item(1, "IFCWALL", 0, TRUE)>>,
   <<Item(1, "IFCPROJECT", 0, TRUE), Item(2, "IFCBUILDING", 1, TRUE), Item(3, "IFCWALL", 2, TRUE)>>,
   <<Item(1, "IFCBUILDINGSTOREY", 0, TRUE), Item(2, "IFCWALL", 1, FALSE)>>}

\* modelIDs the loader hands out
ModelIds == {0, 1}

\* n.id.startsWith("ifc:project:") for the ids the model builds
IsImportedProjectId(id) ==
  \/ id = DefaultProjectId
  \/ \E i \in 1..(MaxItems + 1) :
       id \in {stableSpatialId("Project", Undef, i), stableSpatialId("Project", "G" \o ToString(i), i)}

\* handleImportIfc up to `await importIfcIntoCoordinator(viewer, modelID, nodes)`:
\* the import works on the tree of the render the handler was started in
importStart ==
  /\ pc = "ready"
  /\ ~ifcModel.busy
  /\ ops < MaxOps
  /\ ops' = ops + 1
  /\ \E items \in HostModels, modelID \in ModelIds :
       ifcModel' = [modelID |-> modelID, items |-> items, snap |-> nodes, busy |-> TRUE]
  /\ last' = [ens |-> <<>>]
  /\ UNCHANGED <<nodes, selectedId, targets, nextUid, timers, pc>>

\* the import's projects in Object.values order; the last one is selected
ImportedProjects(merged) ==
  SelectSeq(Values(merged), LAMBDA n : n.kind = "Project" /\ IsImportedProjectId(n.id))

Imported(merged) ==
  /\ nodes' = merged
  /\ selectedId' = IF Len(ImportedProjects(merged)) > 0
                   THEN ImportedProjects(merged)[Len(ImportedProjects(merged))].id
                   ELSE selectedId

\* handleImportIfc after the await: setNodes(sanitizeNodes(mergedRaw))
importDone ==
  /\ pc \in {"ready", "modal"}
  /\ ifcModel.busy
  /\ ops < MaxOps
  /\ ops' = ops + 1
  /\ Imported(sanitizeNodes(importIfcIntoCoordinator(ifcModel.modelID, ifcModel.items,
                                                     ifcModel.snap)))
  /\ ifcModel' = NoModel
  /\ last' = [ens |-> <<>>]
  /\ UNCHANGED <<targets, nextUid, timers, pc>>

\* the loader or the import throws: catch (err) leaves the tree alone
importFailed ==
  /\ pc \in {"ready", "modal"}
  /\ ifcModel.busy
  /\ ops < MaxOps
  /\ ops' = ops + 1
  /\ ifcModel' = NoModel
  /\ last' = [ens |-> <<>>]
  /\ UNCHANGED <<nodes, selectedId, targets, nextUid, timers, pc>>

\* the default tree after the import of a Project with a Building and a leaf
ImportedTree ==
  sanitizeNodes(importIfcIntoCoordinator(
    0, <<Item(1, "IFCPROJECT", 0, TRUE), Item(2, "IFCBUILDING", 1, TRUE),
         Item(3, "IFCWALL", 2, TRUE)>>, DefaultTree))

InitHost ==
  /\ nodes \in {DefaultTree, ImportedTree}
  /\ selectedId = "root"
  /\ targets = NoTargets
  /\ nextUid = 0
  /\ timers = <<>>
  /\ pc = "ready"
  /\ last = [ens |-> <<>>]
  /\ ops = 0
  /\ ifcModel = NoModel

NextHost ==
  \/ Next
  \/ importStart
  \/ importDone
  \/ importFailed

SpecHost == InitHost /\ [][NextHost]_vars

\* C6: every ClassGroup's id is its parentId, "__" and its ifcClass, and no
\* Storey lists two ClassGroups of one ifcClass
C6_GroupIdDeterministic ==
  /\ \A g \in Keys(nodes) :
       nodes.at[g].kind = "ClassGroup" =>
         /\ Truthy(nodes.at[g].parentId) /\ Truthy(nodes.at[g].ifcClass)
         /\ g = nodes.at[g].parentId \o "__" \o nodes.at[g].ifcClass
  /\ \A st \in Keys(nodes) :
       nodes.at[st].kind = "Storey" =>
         \A i, j \in 1..Len(nodes.at[st].children) :
           LET a == nodes.at[st].children[i]
               b == nodes.at[st].children[j]
           IN ( /\ i # j /\ Has(nodes, a) /\ Has(nodes, b)
                /\ nodes.at[a].kind = "ClassGroup" /\ nodes.at[b].kind = "ClassGroup" )
              => nodes.at[a].ifcClass # nodes.at[b].ifcClass

\* C6 witness: an imported Object whose class the user changed to IfcValve
\* has been imported again: next to the IfcValve group the host made, it is
\* back in the group the import made
C6_Witness ==
  \E o \in ObjectIds(nodes) :
    /\ nodes.at[o].ifc # NoIfc
    /\ nodes.at[o].ifcClass = "IfcValve"
    /\ nodes.at[nodes.at[o].parentId].kind = "ClassGroup"
    /\ nodes.at[nodes.at[o].parentId].ifcClass = DefaultClass
    /\ Has(nodes, nodes.at[nodes.at[o].parentId].parentId \o "__IfcValve")

----------------------------------------------------------------------------
(* SpecLookup: an import whose attribute source throws on some lookups *)

\* what a lookup leaves in its caller's variable when its rejection is not caught
Thrown == "<thrown>"

\* the four lookups walk makes for a visited node
LookupCalls == {"GlobalId", "Name", "Tag", "psets"}

\* what the source holds for node i: its attributes and one property set
\* without a name; throws are the lookups the source rejects
Source(i, type, parent, throws) ==
  [expressID |-> i, type |-> type, parent |-> parent,
   props |-> [GlobalId |-> "G" \o ToString(i), Name |-> "N" \o ToString(i),
              Tag |-> "T" \o ToString(i)],
   psets |-> <<[Name |-> Undef,
                HasProperties |-> <<[Name |-> "System", NominalValue |-> "HVAC"],
                                    [Name |-> Undef, NominalValue |-> "x"]>>],
               [Name |-> "Pset_Common", HasProperties |-> <<>>]>>,
   throws |-> throws]

\* mgr.getItemProperties(modelID, expressID, true) as the lookup `call` asks it
getItemProperties(src, call) ==
  IF call \in src.throws THEN [thrown |-> TRUE] ELSE [thrown |-> FALSE, props |-> src.props]

\* a lookup without try/catch: the rejection reaches walk
safeGetItemProps_Mutant(src, call) ==
  IF getItemProperties(src, call).thrown
  THEN [GlobalId |-> Thrown, Name |-> Thrown, Tag |-> Thrown]
  ELSE getItemProperties(src, call).props

\* catch { return undefined }: every props?.X of undefined is undefined
safeGetItemProps(src, call) ==
  IF getItemProperties(src, call).thrown
  THEN [GlobalId |-> Undef, Name |-> Undef, Tag |-> Undef]
  ELSE getItemProperties(src, call).props

safeGetGlobalId(src) == safeGetItemProps(src, "GlobalId").GlobalId

safeGetName(src) == safeGetItemProps(src, "Name").Name

safeGetTag(src) == safeGetItemProps(src, "Tag").Tag

\* asStringValue for a string or null/undefined
asStringValue(v) == IF v = Undef THEN "" ELSE v

\* props[key] = val for each of HasProperties with a key, a later one winning
RECURSIVE PropsOf(_)
PropsOf(hasProperties) ==
  IF Len(hasProperties) = 0 THEN <<>>
  ELSE LET p == hasProperties[Len(hasProperties)]
           rest == PropsOf(SubSeq(hasProperties, 1, Len(hasProperties) - 1))
       IN IF asStringValue(p.Name) = "" THEN rest
          ELSE (asStringValue(p.Name) :> OrElse(asStringValue(p.NominalValue), "")) @@ rest

\* the sets the source gives, named, without those that have no property
ConvertPsets(psets) ==
  SelectSeq([i \in 1..Len(psets) |->
               Pset(OrElse(asStringValue(psets[i].Name), "Pset"),
                    PropsOf(psets[i].HasProperties))],
            LAMBDA p : DOMAIN p.props # {})

\* catch { return [] }
safeGetPsets(src) ==
  IF "psets" \in src.throws THEN <<>> ELSE ConvertPsets(src.psets)

\* the four lookups at the head of walk for one node
Queried(src) ==
  [expressID |-> src.expressID, type |-> src.type, parent |-> src.parent,
   globalId |-> safeGetGlobalId(src), name |-> safeGetName(src), tag |-> safeGetTag(src),
   psets |-> safeGetPsets(src)]

QueriedAll(srcs) == [i \in 1..Len(srcs) |-> Queried(srcs[i])]

\* some lookup's rejection reached walk
Rejected(items) ==
  \E i \in 1..Len(items) : Thrown \in {items[i].globalId, items[i].name, items[i].tag}

LookupTypes == {"IFCBUILDING", "IFCBUILDINGSTOREY", "IFCWALL"}

\* for one node: no lookup fails, a single one fails, all four fail
LookupFailures == {{}, LookupCalls} \cup {{c} : c \in LookupCalls}

RECURSIVE Sources(_)
Sources(n) ==
  IF n = 1 THEN {<<Source(1, t, 0, th)>> : t \in LookupTypes, th \in LookupFailures}
  ELSE UNION {{Append(h, Source(n, t, q, th)) :
                 t \in LookupTypes, th \in LookupFailures, q \in Spine(h, n - 1)}
              : h \in Sources(n - 1)}

InitLookup ==
  /\ nodes \in {EmptyObj, DefaultTree}
  /\ \E n \in 1..MaxItems : \E srcs \in Sources(n) : ifcModel = [NoModel EXCEPT !.items = srcs]
  /\ selectedId = "root"
  /\ targets = NoTargets
  /\ nextUid = 0
  /\ timers = <<>>
  /\ pc = "loaded"
  /\ last = [before |-> nodes]
  /\ ops = 0

\* importIfcIntoCoordinator over a source that rejects some lookups: the
\* promise resolves with the draft, or rejects with what reached walk
importLookups ==
  /\ pc = "loaded"
  /\ IF Rejected(QueriedAll(ifcModel.items))
     THEN /\ pc' = "rejected"
          /\ nodes' = nodes
     ELSE /\ pc' = "imported"
          /\ nodes' = importIfcIntoCoordinator(ifcModel.modelID, QueriedAll(ifcModel.items), nodes)
  /\ UNCHANGED <<selectedId, targets, nextUid, timers, last, ops, ifcModel>>

NextLookup == importLookups

SpecLookup == InitLookup /\ [][NextLookup]_vars

\* the source's answers for one node with each failed attribute absent
Degraded(src) ==
  [expressID |-> src.expressID, type |-> src.type, parent |-> src.parent,
   globalId |-> IF "GlobalId" \in src.throws THEN Undef ELSE src.props.GlobalId,
   name |-> IF "Name" \in src.throws THEN Undef ELSE src.props.Name,
   tag |-> IF "Tag" \in src.throws THEN Undef ELSE src.props.Tag,
   psets |-> IF "psets" \in src.throws THEN <<>> ELSE <<Pset("Pset", "System" :> "HVAC")>>]

\* the id walk gives the node of a source whose failed attributes are absent
DegradedId(src) ==
  IF spatialKindFromIfcType(src.type) # Undef
  THEN stableSpatialId(spatialKindFromIfcType(src.type), Degraded(src).globalId, src.expressID)
  ELSE ObjId(ifcModel.modelID, Degraded(src).globalId, src.expressID)

\* C11: whichever lookups the source rejects, the import completes, its
\* result is the result for a source in which each failed attribute is
\* absent, and every node of the hierarchy has its node in the tree, a
\* node whose Name lookup failed being named after its type
C11_LookupFailureDegrades ==
  /\ pc # "rejected"
  /\ pc = "imported" =>
       /\ nodes = importIfcIntoCoordinator(
                    ifcModel.modelID,
                    [i \in 1..Len(ifcModel.items) |-> Degraded(ifcModel.items[i])],
                    last.before)
       /\ \A i \in 1..Len(ifcModel.items) :
            /\ Has(nodes, DegradedId(ifcModel.items[i]))
            /\ nodes.at[DegradedId(ifcModel.items[i])].ifc.expressID = i
            /\ "Name" \in ifcModel.items[i].throws
                 => nodes.at[DegradedId(ifcModel.items[i])].name = ifcModel.items[i].type

\* C11 witness: the GlobalId lookup of a Storey failed, the Storey is in the
\* tree under its expressID, and the leaf under it has its Object with the
\* property set the source gave
C11_Witness ==
  /\ pc = "imported"
  /\ Len(ifcModel.items) = 2
  /\ ifcModel.items[1].throws = {"GlobalId"}
  /\ Has(nodes, "ifc:storey:1")
  /\ Has(nodes, "ifc:obj:G2")
  /\ nodes.at["ifc:obj:G2"].psets = <<Pset("Pset", "System" :> "HVAC")>>
  /\ nodes.at["ifc:obj:G2"].parentId = "ifc:storey:1__IfcBuildingElementProxy"

----------------------------------------------------------------------------
(* SpecAtomic: handleImportIfc with the import advancing one visited node   *)
(* at a time on its draft; it may fail or be abandoned at any await         *)

\* a draft that is the snapshot object itself instead of a copy of it
cloneNodes_Mutant(n) == [tree |-> n, shared |-> TRUE]

\* structuredClone(nodes): a draft that shares nothing with the snapshot
cloneNodes(n) == [tree |-> n, shared |-> FALSE]

\* what a write to the draft leaves in an object `n` the handler also holds:
\* the written draft when the two are one object
SeenThrough(draft, shared, n) == IF shared THEN draft ELSE n

InitAtomic ==
  /\ nodes \in {DefaultTree, ImportedTree}
  /\ \E items \in Models, modelID \in ModelIds :
       ifcModel = [modelID |-> modelID, items |-> items, snap |-> EmptyObj, busy |-> FALSE,
                   draft |-> EmptyObj, shared |-> FALSE, i |-> 0, passed |-> <<>>]
  /\ selectedId = "root"
  /\ targets = NoTargets
  /\ nextUid = 0
  /\ timers = <<>>
  /\ pc = "ready"
  /\ last = [before |-> nodes]
  /\ ops = 0

\* handleImportIfc calls importIfcIntoCoordinator(viewer, modelID, nodes): the
\* draft is made and given its root, then the function awaits the hierarchy
importBegin ==
  /\ pc = "ready"
  /\ pc' = "importing"
  /\ LET c == cloneNodes(nodes)
         d == ensureNode(c.tree, "root", RootNode)
     IN /\ ifcModel' = [ifcModel EXCEPT !.snap = SeenThrough(d, c.shared, nodes), !.busy = TRUE,
                                        !.draft = d, !.shared = c.shared, !.i = 1]
        /\ nodes' = SeenThrough(d, c.shared, nodes)
  /\ UNCHANGED <<selectedId, targets, nextUid, timers, last, ops>>

\* walk visits the next node of the hierarchy after its lookups were awaited
importVisit ==
  /\ pc = "importing"
  /\ ifcModel.i <= Len(ifcModel.items)
  /\ LET item == ifcModel.items[ifcModel.i]
         from == PassedTo(ifcModel.passed, item.parent)
         v == Visit(ifcModel.draft, item, from.parentId, from.storeyId, ifcModel.modelID)
     IN /\ ifcModel' = [ifcModel EXCEPT
                          !.draft = v.draft,
                          !.snap = SeenThrough(v.draft, ifcModel.shared, ifcModel.snap),
                          !.i = ifcModel.i + 1,
                          !.passed = Append(ifcModel.passed,
                                            [parentId |-> v.parentId, storeyId |-> v.storeyId])]
        /\ nodes' = SeenThrough(v.draft, ifcModel.shared, nodes)
  /\ UNCHANGED <<selectedId, targets, nextUid, timers, pc, last, ops>>

\* the promise resolves with the draft: setNodes(sanitizeNodes(mergedRaw))
importResolve ==
  /\ pc = "importing"
  /\ ifcModel.i > Len(ifcModel.items)
  /\ pc' = "done"
  /\ Imported(sanitizeNodes(ifcModel.draft))
  /\ ifcModel' = [ifcModel EXCEPT !.busy = FALSE]
  /\ UNCHANGED <<targets, nextUid, timers, last, ops>>

\* an await of the import rejects: catch (err) reports it
importReject ==
  /\ pc = "importing"
  /\ pc' = "failed"
  /\ ifcModel' = [ifcModel EXCEPT !.busy = FALSE]
  /\ UNCHANGED <<nodes, selectedId, targets, nextUid, timers, last, ops>>

\* an await of the import never settles
importAbandon ==
  /\ pc = "importing"
  /\ pc' = "abandoned"
  /\ UNCHANGED <<nodes, selectedId, targets, nextUid, timers, last, ops, ifcModel>>

NextAtomic ==
  \/ importBegin
  \/ importVisit
  \/ importResolve
  \/ importReject
  \/ importAbandon

SpecAtomic == InitAtomic /\ [][NextAtomic]_vars

\* C12: while an import is under way, and after it failed or was abandoned,
\* the host tree and the snapshot handed to the import are the tree the
\* handler started with; a completed import puts the whole result in at once
C12_ImportAtomic ==
  /\ pc \in {"importing", "failed", "abandoned"} =>
       /\ nodes = last.before
       /\ ifcModel.snap = last.before
  /\ pc = "done" =>
       /\ ifcModel.snap = last.before
       /\ nodes = sanitizeNodes(importIfcIntoCoordinator(ifcModel.modelID, ifcModel.items,
                                                         last.before))

\* C12 witness: an import that had written a Storey and the placeholder
\* group of its leaf into its draft was abandoned
C12_Witness ==
  /\ pc \in {"failed", "abandoned"}
  /\ ifcModel.i = 3
  /\ Has(ifcModel.draft, "ifc:storey:G1")
  /\ Has(ifcModel.draft, "ifc:storey:G1__IfcBuildingElementProxy")
  /\ ~Has(nodes, "ifc:storey:G1")

----------------------------------------------------------------------------
(* exportIfc2x3.ts: the exporter. A record `ENTITY(...)` is modelled by its   *)
(* entity name, the numbers of the #k it holds in order, its quoted label     *)
(* (name, key or set name) and its typed value; the GlobalId every rooted     *)
(* record gets from ifcGuid() is a fresh random value and is left out.        *)

Rec(entity, refs, label, value) ==
  [entity |-> entity, refs |-> refs, label |-> label, value |-> value]

\* new IfcWriter()
NewWriter == [nextId |-> 1, lines |-> <<>>]

\* a writer that numbers every record with the id it started with
add_Mutant(w, rec) ==
  [nextId |-> w.nextId,
   lines |-> Append(w.lines, [id |-> w.nextId, text |-> [n |-> w.nextId, rec |-> rec]])]

\* const id = this.id(); this.lines.push({ id, text: `#${id}=${text};` })
add(w, rec) ==
  [nextId |-> w.nextId + 1,
   lines |-> Append(w.lines, [id |-> w.nextId, text |-> [n |-> w.nextId, rec |-> rec]])]

\* the id the last add returned
Added(w) == w.lines[Len(w.lines)].id

\* v.trim() for the strings met
Trim(v) ==
  CASE v \in {" ", "  "} -> ""
    [] v = " Pset_Site " -> "Pset_Site"
    [] v = " Piping " -> "Piping"
    [] v = " System " -> "System"
    [] OTHER -> v

\* v.replace(/\\/g, "\\\\").replace(/'/g, "''") for the strings met
Escaped(v) ==
  CASE v = "Site 'A'" -> "Site ''A''"
    [] v = "O'Neil" -> "O''Neil"
    [] OTHER -> v

\* s(v)
quoted(v) == IF ~Truthy(v) THEN "$" ELSE "'" \o Escaped(v) \o "'"

\* ifcValue(v) for the values met
ifcValue(v) ==
  LET raw == Trim(Nullish(v, ""))
  IN CASE raw = "" -> "$"
       [] raw \in {"true", "TRUE"} -> "IFCBOOLEAN(.T.)"
       [] raw \in {"false", "False"} -> "IFCBOOLEAN(.F.)"
       [] raw = "42" -> "IFCINTEGER(42)"
       [] raw = "-7" -> "IFCINTEGER(-7)"
       [] raw = "1.50" -> "IFCREAL(1.5)"
       [] OTHER -> "IFCTEXT('" \o Escaped(raw) \o "')"

\* Object.values(nodes).find((n) => n.kind === "Project") ?? nodes["project"]
FindProject(n) ==
  IF \E i \in 1..Len(n.ord) : n.at[n.ord[i]].kind = "Project"
  THEN Loaded(SelectSeq(Values(n), LAMBDA v : v.kind = "Project")[1])
  ELSE IF Has(n, "project") THEN Loaded(n.at["project"])
  ELSE Absent

\* the export under way: the writer, nodeToIfcId, ownerHistory, the id the
\* last create* returned, and the element id given to each exported Object
Export(w, ids, ownerHistory, ret, elements) ==
  [w |-> w, ids |-> ids, ownerHistory |-> ownerHistory, ret |-> ret, elements |-> elements]

Wrote(x, w) == [x EXCEPT !.w = w, !.ret = Added(w)]

\* nodeToIfcId.set(id, x.ret)
Registered(x, id) == [x EXCEPT !.ids = (id :> x.ret) @@ x.ids]

\* the common records and the project record, #1 to #8
ExportHead(project) ==
  LET w1 == add(NewWriter, Rec("IFCOWNERHISTORY", <<>>, "$", "$"))
      w2 == add(w1, Rec("IFCCARTESIANPOINT", <<>>, "$", "$"))
      w3 == add(w2, Rec("IFCAXIS2PLACEMENT3D", <<Added(w2)>>, "$", "$"))
      w4 == add(w3, Rec("IFCLOCALPLACEMENT", <<Added(w3)>>, "$", "$"))
      w5 == add(w4, Rec("IFCGEOMETRICREPRESENTATIONCONTEXT", <<Added(w3)>>, "'Model'", "$"))
      w6 == add(w5, Rec("IFCSIUNIT", <<>>, "$", "$"))
      w7 == add(w6, Rec("IFCUNITASSIGNMENT", <<Added(w6)>>, "$", "$"))
      w8 == add(w7, Rec("IFCPROJECT", <<Added(w1), Added(w5), Added(w7)>>,
                        quoted(Nullish(project.name, "IfcProject")), "$"))
  IN [x |-> Registered(Export(w8, <<>>, Added(w1), Added(w8), <<>>), project.id),
      worldPlacement |-> Added(w4)]

PlacementAxis(w, relativeTo) ==
  add(w, Rec("IFCLOCALPLACEMENT", <<relativeTo, Added(w)>>, "$", "$"))

PlacementPoint(w, relativeTo) ==
  PlacementAxis(add(w, Rec("IFCAXIS2PLACEMENT3D", <<Added(w)>>, "$", "$")), relativeTo)

createLocalPlacement(w, relativeTo) ==
  PlacementPoint(add(w, Rec("IFCCARTESIANPOINT", <<>>, "$", "$")), relativeTo)

\* createSite / createBuilding / createStorey: a placement, then the record
\* of the node's kind holding ownerHistory and the placement
Placed(x, w, entity, node) ==
  Registered(Wrote(x, add(w, Rec(entity, <<x.ownerHistory, Added(w)>>, quoted(node.name), "$"))),
             node.id)

createSite(x, node, parentPlacement) ==
  Placed(x, createLocalPlacement(x.w, parentPlacement), "IFCSITE", node)

createBuilding(x, node, parentPlacement) ==
  Placed(x, createLocalPlacement(x.w, parentPlacement), "IFCBUILDING", node)

createStorey(x, node, parentPlacement) ==
  Placed(x, createLocalPlacement(x.w, parentPlacement), "IFCBUILDINGSTOREY", node)

createRelAggregates(x, parentIfc, childrenIfc) ==
  IF Len(childrenIfc) = 0 THEN x
  ELSE Wrote(x, add(x.w, Rec("IFCRELAGGREGATES", <<x.ownerHistory, parentIfc>> \o childrenIfc,
                             "$", "$")))

\* node.children.map((id) => nodes[id]).filter(Boolean).filter((n) => n.kind === kind)
KindChildren(n, node, kind) ==
  [i \in 1..Len(SelectSeq(node.children, LAMBDA id : Has(n, id) /\ n.at[id].kind = kind)) |->
     n.at[SelectSeq(node.children, LAMBDA id : Has(n, id) /\ n.at[id].kind = kind)[i]]]

\* a loop's state: the export and the ids pushed so far
Loop(x, made) == [x |-> x, made |-> made]

RECURSIVE ExportStoreys(_, _, _, _)
ExportStoreys(l, storeyNodes, i, bNode) ==
  IF i > Len(storeyNodes) THEN l
  ELSE ExportStoreys(
         Loop(createStorey(l.x, storeyNodes[i], l.x.ids[bNode.id]),
              Append(l.made, createStorey(l.x, storeyNodes[i], l.x.ids[bNode.id]).ret)),
         storeyNodes, i + 1, bNode)

\* the body of the building loop after createBuilding
ExportBuilding(n, xb, bNode) ==
  createRelAggregates(ExportStoreys(Loop(xb, <<>>), KindChildren(n, bNode, "Storey"), 1, bNode).x,
                      xb.ret,
                      ExportStoreys(Loop(xb, <<>>), KindChildren(n, bNode, "Storey"), 1, bNode).made)

RECURSIVE ExportBuildings(_, _, _, _, _)
ExportBuildings(n, l, buildingNodes, i, sNode) ==
  IF i > Len(buildingNodes) THEN l
  ELSE ExportBuildings(
         n,
         Loop(ExportBuilding(n, createBuilding(l.x, buildingNodes[i], l.x.ids[sNode.id]),
                             buildingNodes[i]),
              Append(l.made, createBuilding(l.x, buildingNodes[i], l.x.ids[sNode.id]).ret)),
         buildingNodes, i + 1, sNode)

\* the body of the site loop after createSite
ExportSite(n, xs, sNode) ==
  createRelAggregates(
    ExportBuildings(n, Loop(xs, <<>>), KindChildren(n, sNode, "Building"), 1, sNode).x,
    xs.ret,
    ExportBuildings(n, Loop(xs, <<>>), KindChildren(n, sNode, "Building"), 1, sNode).made)

RECURSIVE ExportSites(_, _, _, _, _)
ExportSites(n, l, siteNodes, i, worldPlacement) ==
  IF i > Len(siteNodes) THEN l
  ELSE ExportSites(
         n,
         Loop(ExportSite(n, createSite(l.x, siteNodes[i], worldPlacement), siteNodes[i]),
              Append(l.made, createSite(l.x, siteNodes[i], worldPlacement).ret)),
         siteNodes, i + 1, worldPlacement)

\* the spatial structure: sites, buildings, storeys and their aggregations
ExportSpatial(n, project, head) ==
  createRelAggregates(
    ExportSites(n, Loop(head.x, <<>>), KindChildren(n, project, "Site"), 1,
                head.worldPlacement).x,
    head.x.ids[project.id],
    ExportSites(n, Loop(head.x, <<>>), KindChildren(n, project, "Site"), 1,
                head.worldPlacement).made)

\* getObjectsUnderStorey
RECURSIVE ObjectsOfGroups(_, _, _)
ObjectsOfGroups(n, groups, i) ==
  IF i > Len(groups) THEN <<>>
  ELSE KindChildren(n, groups[i], "Object") \o ObjectsOfGroups(n, groups, i + 1)

getObjectsUnderStorey(n, storeyNode) ==
  ObjectsOfGroups(n, KindChildren(n, storeyNode, "ClassGroup"), 1)

IFC2X3_SAFE_ENTITIES ==
  {"IFCBUILDINGELEMENTPROXY", "IFCVALVE", "IFCPUMP", "IFCTANK", "IFCPIPESEGMENT",
   "IFCPIPEFITTING", "IFCFLOWMETER", "IFCACTUATOR", "IFCSENSOR", "IFCCABLECARRIERSEGMENT"}

\* raw.toUpperCase() for the classes met; startsWith("IFC") holds for all
\* of them but "Valve"
normalizeEntityName(ifcClass) ==
  LET raw == Trim(Nullish(ifcClass, ""))
      ent == CASE raw = "IfcValve" -> "IFCVALVE"
               [] raw = "IfcPump" -> "IFCPUMP"
               [] raw = "IfcBuildingElementProxy" -> "IFCBUILDINGELEMENTPROXY"
               [] raw = "IfcWall" -> "IFCWALL"
               [] raw = "Valve" -> "VALVE"
               [] OTHER -> raw
  IN IF raw = "" THEN "IFCBUILDINGELEMENTPROXY"
     ELSE IF ent = "VALVE" THEN "IFCBUILDINGELEMENTPROXY"
     ELSE IF ent \in IFC2X3_SAFE_ENTITIES THEN ent ELSE "IFCBUILDINGELEMENTPROXY"

\* the value field holds ObjectType and Tag
emitElement(x, entity, obj, placementRef) ==
  Wrote(x, add(x.w, Rec(entity, <<x.ownerHistory, placementRef>>, quoted(obj.name),
                        <<IF Truthy(obj.ifcClass) THEN quoted(obj.ifcClass) ELSE "$",
                          IF Truthy(obj.tag) THEN quoted(obj.tag) ELSE "$">>)))

\* the keys of props in the order the sets met here were filled
PropKeyOrder == <<"", " ", "System", "Medium", "Rating">>

\* Object.entries(pset.props ?? {}).filter(([k]) => k.trim().length > 0), the keys
Entries(pset) == SelectSeq(PropKeyOrder, LAMBDA k : k \in DOMAIN pset.props /\ Trim(k) # "")

RECURSIVE AddValues(_, _, _, _)
AddValues(w, pset, keys, i) ==
  IF i > Len(keys) THEN w
  ELSE AddValues(add(w, Rec("IFCPROPERTYSINGLEVALUE", <<>>, quoted(keys[i]),
                          ifcValue(pset.props[keys[i]]))),
                 pset, keys, i + 1)

\* the property-set record over the value records just added, then the relation
AddPsetRel(x, w, elementIfcId) ==
  Wrote(x, add(w, Rec("IFCRELDEFINESBYPROPERTIES", <<x.ownerHistory, elementIfcId, Added(w)>>,
                      "$", "$")))

AddPset(x, pset, elementIfcId, first) ==
  AddPsetRel(x,
             add(AddValues(x.w, pset, Entries(pset), 1),
                 Rec("IFCPROPERTYSET",
                     <<x.ownerHistory>> \o [k \in 1..Len(Entries(pset)) |-> first + k - 1],
                     quoted(Trim(Nullish(pset.name, ""))), "$")),
             elementIfcId)

RECURSIVE PsetsLoop(_, _, _, _)
PsetsLoop(x, psets, i, elementIfcId) ==
  IF i > Len(psets) THEN x
  ELSE IF Trim(Nullish(psets[i].name, "")) = "" \/ Len(Entries(psets[i])) = 0
       THEN PsetsLoop(x, psets, i + 1, elementIfcId)
  ELSE PsetsLoop(AddPset(x, psets[i], elementIfcId, x.w.nextId), psets, i + 1, elementIfcId)

addPsetsForElement(x, elementIfcId, obj) == PsetsLoop(x, obj.psets, 1, elementIfcId)

\* elementIfcIds.push(el); addPsetsForElement(el, obj)
ElementDone(xe, obj) ==
  addPsetsForElement([xe EXCEPT !.elements = Append(@, [node |-> obj.id, el |-> xe.ret])],
                     xe.ret, obj)

RECURSIVE ExportObjects(_, _, _, _)
ExportObjects(l, objs, i, ifcStorey) ==
  IF i > Len(objs) THEN l
  ELSE ExportObjects(
         Loop(ElementDone(emitElement(Wrote(l.x, createLocalPlacement(l.x.w, ifcStorey)),
                                      normalizeEntityName(objs[i].ifcClass), objs[i],
                                      Added(createLocalPlacement(l.x.w, ifcStorey))),
                          objs[i]),
              Append(l.made, emitElement(Wrote(l.x, createLocalPlacement(l.x.w, ifcStorey)),
                                         normalizeEntityName(objs[i].ifcClass), objs[i],
                                         Added(createLocalPlacement(l.x.w, ifcStorey))).ret)),
         objs, i + 1, ifcStorey)

\* the containment record after the elements of one storey
Contained(l, ifcStorey) ==
  Wrote(l.x, add(l.x.w, Rec("IFCRELCONTAINEDINSPATIALSTRUCTURE",
                            <<l.x.ownerHistory>> \o l.made \o <<ifcStorey>>, "$", "$")))

RECURSIVE ExportElements(_, _, _, _)
ExportElements(n, x, storeyNodesAll, i) ==
  IF i > Len(storeyNodesAll) THEN x
  ELSE IF \/ storeyNodesAll[i].id \notin DOMAIN x.ids
          \/ Len(getObjectsUnderStorey(n, storeyNodesAll[i])) = 0
       THEN ExportElements(n, x, storeyNodesAll, i + 1)
  ELSE ExportElements(
         n,
         Contained(ExportObjects(Loop(x, <<>>), getObjectsUnderStorey(n, storeyNodesAll[i]), 1,
                                 x.ids[storeyNodesAll[i].id]),
                   x.ids[storeyNodesAll[i].id]),
         storeyNodesAll, i + 1)

\* what a call leaves: the document's body and the element ids, or the error
Exported(x) == [ok |-> TRUE, lines |-> x.w.lines, elements |-> x.elements]

exportIfc2x3FromTree(n) ==
  IF ~FindProject(n).present THEN [ok |-> FALSE, lines |-> <<>>, elements |-> <<>>]
  ELSE Exported(ExportElements(
                  n, ExportSpatial(n, FindProject(n).node, ExportHead(FindProject(n).node)),
                  SelectSeq(Values(n), LAMBDA v : v.kind = "Storey"), 1))

----------------------------------------------------------------------------
(* SpecExport: exportIfc2x3FromTree applied to the host's tree *)

\* the property sets an exported Object may carry: none, the empty set the
\* host gives a new Object, sets filled in the panel, imported sets whose
\* name or key is blank
ExportPsets ==
  {<<>>,
   <<AssetPset>>,
   <<Pset("Pset_AssetCustom", "System" :> "Piping")>>,
   <<Pset("Pset_AssetCustom", ("System" :> "Piping") @@ ("Medium" :> "42"))>>,
   <<Pset("Pset_AssetCustom", "System" :> " Piping "), Pset("Pset_Common", "Rating" :> "true")>>,
   <<Pset(" ", "System" :> "Piping")>>,
   <<Pset("Pset_Common", " " :> "x")>>,
   <<Pset("Pset_Common", ("" :> "x") @@ ("Rating" :> "1.50")), AssetPset>>}

\* the default tree with a Valve "V-1" in its own ClassGroup and, when
\* class2 is given, a second Object of that class in the default group;
\* kind is the kind of the node under key "project"
ExportTree(kind, psets1, class2, psets2) ==
  LET g1 == groupId("storey_1", DefaultClass)
      gv == groupId("storey_1", "IfcValve")
      t1 == Put(DefaultTree, "project", [DefaultTree.at["project"] EXCEPT !.kind = kind])
      t2 == AppendChild(Put(t1, gv, [Node(gv, "ClassGroup", "IfcValve", "storey_1", <<"obj_v">>)
                                       EXCEPT !.ifcClass = "IfcValve"]),
                        "storey_1", gv)
      t3 == Put(t2, "obj_v", [NewObject("obj_v", "V-1", "V-1", "IfcValve", gv)
                                EXCEPT !.psets = psets1])
  IN IF class2 = Undef THEN t3
     ELSE AppendChild(Put(t3, "obj_w", [NewObject("obj_w", "O'Neil", Undef, class2, g1)
                                          EXCEPT !.psets = psets2]),
                      g1, "obj_w")

\* the default tree with a second Site that has a Building with two Storeys
TwoSites ==
  LET t1 == AppendChild(Put(DefaultTree, "site_2", Node("site_2", "Site", "Site 'A'", "project",
                                                        <<"building_2">>)),
                        "project", "site_2")
      t2 == Put(t1, "building_2", Node("building_2", "Building", "Building 1", "site_2",
                                       <<"storey_2", "storey_3">>))
      t3 == Put(t2, "storey_2", Node("storey_2", "Storey", "Storey 1", "building_2", <<>>))
  IN Put(t3, "storey_3", Node("storey_3", "Storey", "", "building_2", <<>>))

InitExport ==
  /\ nodes \in {sanitizeNodes(EmptyObj), DefaultTree, StoredTree, ImportedTree, TwoSites} \cup
               {sanitizeNodes(ExportTree(k, p1, c2, p2)) :
                  k \in {"Project", "Site"}, p1 \in ExportPsets,
                  c2 \in {Undef, "IfcWall", "Valve", "IfcPump"},
                  p2 \in {<<AssetPset>>, <<Pset("Pset_AssetCustom", "Medium" :> "-7")>>}}
  /\ selectedId = "root"
  /\ targets = NoTargets
  /\ nextUid = 0
  /\ timers = <<>>
  /\ pc = "ready"
  /\ last = [op |-> "load", result |-> [ok |-> FALSE, lines |-> <<>>, elements |-> <<>>]]
  /\ ops = 0
  /\ ifcModel = NoModel

\* the Export button: exportIfc2x3FromTree(nodes, "template.ifc")
exportIfc ==
  /\ pc = "ready"
  /\ last' = [op |-> "export", result |-> exportIfc2x3FromTree(nodes)]
  /\ pc' = IF last'.result.ok THEN "exported" ELSE "failed"
  /\ UNCHANGED <<nodes, selectedId, targets, nextUid, timers, ops, ifcModel>>

NextExport == exportIfc

SpecExport == InitExport /\ [][NextExport]_vars

\* C13: the export fails exactly when the tree has no node of kind Project
C13_MissingProject ==
  pc \in {"exported", "failed"} =>
    (last.result.ok <=> \E id \in Keys(nodes) : nodes.at[id].kind = "Project")

\* C14: the records of an exported document are numbered 1, 2, 3, ... in
\* emission order and every #k inside record n has k < n
C14_ConsecutiveBackwardRefs ==
  pc = "exported" =>
    \A i \in 1..Len(last.result.lines) :
      /\ last.result.lines[i].id = i
      /\ last.result.lines[i].text.n = i
      /\ \A j \in 1..Len(last.result.lines[i].text.rec.refs) :
           last.result.lines[i].text.rec.refs[j] \in 1..(i - 1)

\* C14 witness: a document with two elements, their property-set records
\* and the containment record that lists both
C14_Witness ==
  /\ pc = "exported"
  /\ Len(last.result.elements) = 2
  /\ \E i \in 1..Len(last.result.lines) :
       /\ last.result.lines[i].text.rec.entity = "IFCRELCONTAINEDINSPATIALSTRUCTURE"
       /\ Len(last.result.lines[i].text.rec.refs) = 4
  /\ \E i \in 1..Len(last.result.lines) :
       /\ last.result.lines[i].text.rec.entity = "IFCPROPERTYSET"
       /\ Len(last.result.lines[i].text.rec.refs) = 3

\* the keys of a set that are not blank
NonBlankKeys(pset) == {k \in DOMAIN pset.props : Trim(k) # ""}

\* the record at position pos of the body, or a record of no entity past its end
RecAt(pos) ==
  IF pos \in 1..Len(last.result.lines) THEN last.result.lines[pos].text.rec
  ELSE Rec("", <<>>, "$", "$")

\* from position pos on the body holds, for each of psets[j..] with a
\* non-blank key, one value record per non-blank key, one property-set
\* record over exactly those and one relation from the element to the set,
\* and then no further such record
RECURSIVE PsetBlocks(_, _, _, _)
PsetBlocks(pos, psets, j, el) ==
  IF j > Len(psets)
  THEN RecAt(pos).entity \notin {"IFCPROPERTYSINGLEVALUE", "IFCPROPERTYSET",
                                 "IFCRELDEFINESBYPROPERTIES"}
  ELSE IF NonBlankKeys(psets[j]) = {} THEN PsetBlocks(pos, psets, j + 1, el)
  ELSE LET k == Cardinality(NonBlankKeys(psets[j]))
       IN /\ \A q \in pos..(pos + k - 1) : RecAt(q).entity = "IFCPROPERTYSINGLEVALUE"
          /\ {RecAt(q).label : q \in pos..(pos + k - 1)}
               = {quoted(key) : key \in NonBlankKeys(psets[j])}
          /\ RecAt(pos + k).entity = "IFCPROPERTYSET"
          /\ Range(Tail(RecAt(pos + k).refs)) = pos..(pos + k - 1)
          /\ Len(RecAt(pos + k).refs) = k + 1
          /\ RecAt(pos + k + 1).entity = "IFCRELDEFINESBYPROPERTIES"
          /\ Tail(RecAt(pos + k + 1).refs) = <<el, pos + k>>
          /\ PsetBlocks(pos + k + 2, psets, j + 1, el)

\* C15: after the record of every exported Object come, for each of its
\* property sets with a non-blank key, the value records, the property-set
\* record and the defines-by-properties record, and nothing for a set
\* without a non-blank key
C15_PsetRecords ==
  pc = "exported" =>
    \A e \in 1..Len(last.result.elements) :
      PsetBlocks(last.result.elements[e].el + 1,
                 nodes.at[last.result.elements[e].node].psets, 1,
                 last.result.elements[e].el)

----------------------------------------------------------------------------
(* SpecTags: batch creation with tags and bulk tag generation, with the     *)
(* pattern, start, step and uniqueness fields as the user has set them      *)

\* Objects one batch creates at most
MaxTagBatch == 3

\* handlers run in one behaviour
MaxTagOps == 2

\* patterns typed into the pattern fields: "{CLASS}-{N:3}", "{CLASS}-{N}",
\* "{CLASS}-{CUSTOM}" and "{N:2}"
TagPatterns ==
  {DefaultBatchTagPattern, <<Tok("CLASS"), Lit("-"), TokN(0)>>,
   <<Tok("CLASS"), Lit("-"), Tok("CUSTOM")>>, <<TokN(2)>>}

\* the batch form with its tag fields
TagForms ==
  {[Form("batch", "", "", c, k, TRUE)
      EXCEPT !.tagPattern = p, !.start = a, !.step = d, !.skipExisting = u] :
     c \in {DefaultClass, "IfcPump"}, k \in 1..MaxTagBatch, p \in TagPatterns,
     a \in {1, 2}, d \in {0, 1, 2}, u \in BOOLEAN}

\* the bulk panel's tag fields
TagSettings ==
  {[pattern |-> p, start |-> 1, step |-> d, skipExisting |-> u, mode |-> m, custom |-> "X"] :
     p \in TagPatterns \ {<<TokN(2)>>}, d \in {0, 1}, u \in BOOLEAN,
     m \in {"global", "perClass"}}

\* the stored tree with the tags "PUMP-002" and "PROXY-X" on its Objects
TaggedTree ==
  Put(Put(StoredTree, "obj_s1", [StoredTree.at["obj_s1"] EXCEPT !.tag = "PUMP-002"]),
      "obj_s2", [StoredTree.at["obj_s2"] EXCEPT !.tag = "PROXY-X"])

InitTags ==
  /\ nodes \in {DefaultTree, StoredTree, TaggedTree}
  /\ selectedId = "root"
  /\ targets = NoTargets
  /\ nextUid = 0
  /\ timers = <<>>
  /\ pc = "ready"
  /\ last = [op |-> "load", before |-> nodes, ids |-> <<>>, unique |-> FALSE]
  /\ ops = 0
  /\ ifcModel = NoModel

\* the Add Object button
openAddObjectTags ==
  /\ ops < MaxTagOps
  /\ openAddObject

\* the ids a handler added to the tree, in the order it added them
AddedObjects(before, after) ==
  SelectSeq(after.ord, LAMBDA id : ~Has(before, id) /\ after.at[id].kind = "Object")

BatchCommit(f, c) ==
  /\ CommitTo(c.h, IF c.hang THEN "hung" ELSE "ready")
  /\ selectedId' = Selection(c.first, c.h.st)
  /\ last' = [op |-> "createObject", before |-> nodes, ids |-> AddedObjects(nodes, c.h.st),
              unique |-> f.skipExisting, form |-> f]

\* createObject in batch mode with tags
createObjectBatch ==
  /\ pc = "modal"
  /\ ops < MaxTagOps
  /\ \E f \in TagForms :
       BatchCommit(f, CreateAt(f, ResolveTargets(Handler(nodes, nextUid), nodes, selectedId,
                                                 targets)))
  /\ UNCHANGED <<targets, timers, ifcModel>>

\* the name of the node `up` parent links above the Object, spaces removed
RECURSIVE AncestorName(_, _, _, _)
AncestorName(snap, id, up, dflt) ==
  IF id = Undef \/ ~Has(snap, id) THEN dflt
  ELSE IF up = 0 THEN StripSpaces(snap.at[id].name)
  ELSE AncestorName(snap, IF Truthy(snap.at[id].parentId) THEN snap.at[id].parentId ELSE Undef,
                    up - 1, dflt)

buildTokenMapForObject(snap, oid, custom) ==
  [CLASS |-> normalizeClassShort(IF Has(snap, oid) THEN snap.at[oid].ifcClass ELSE Undef),
   SITE |-> AncestorName(snap, oid, 4, "SITE"),
   BLDG |-> AncestorName(snap, oid, 3, "BLDG"),
   STRY |-> AncestorName(snap, oid, 2, "STRY"),
   CUSTOM |-> StripSpaces(custom)]

\* globalCounter and classCounters
Counters(global, perClass) == [global |-> global, perClass |-> perClass]

\* nextNumberFor(cls): the number it returns and the counters it leaves
nextNumberFor(c, cls, s) ==
  IF s.mode = "global"
  THEN [num |-> c.global, c |-> Counters(c.global + s.step, c.perClass)]
  ELSE IF cls \in DOMAIN c.perClass
       THEN [num |-> c.perClass[cls],
             c |-> Counters(c.global, (cls :> (c.perClass[cls] + s.step)) @@ c.perClass)]
  ELSE [num |-> s.start, c |-> Counters(c.global, (cls :> (s.start + s.step)) @@ c.perClass)]

\* let num = nextNumberFor(cls); let candidate = applyPattern(...);
\* while (used.has(candidate)) { num = nextNumberFor(cls); candidate = ... }
\* A candidate still taken after every used tag could have been skipped once
\* never changes: the loop does not end.
RECURSIVE TagProbe(_, _, _, _, _)
TagProbed(s, tokenMap, r, used, fuel) ==
  IF ~s.skipExisting \/ applyPattern(s.pattern, tokenMap, r.num) \notin used
  THEN [tag |-> applyPattern(s.pattern, tokenMap, r.num), c |-> r.c, hang |-> FALSE]
  ELSE IF fuel = 0 THEN [tag |-> applyPattern(s.pattern, tokenMap, r.num), c |-> r.c, hang |-> TRUE]
  ELSE TagProbe(s, tokenMap, r.c, used, fuel - 1)

TagProbe(s, tokenMap, c, used, fuel) ==
  TagProbed(s, tokenMap, nextNumberFor(c, tokenMap.CLASS, s), used, fuel)

\* ids.forEach of the updater of bulkApplyTags
RECURSIVE TagLoop(_, _, _, _, _, _, _)
TagStep(snap, next, ids, i, c, used, s, probe) ==
  IF probe.hang THEN [st |-> next, hang |-> TRUE]
  ELSE TagLoop(snap, Put(next, ids[i], [next.at[ids[i]] EXCEPT !.tag = probe.tag]), ids, i + 1,
               probe.c, IF s.skipExisting THEN used \cup {probe.tag} ELSE used, s)

TagLoop(snap, next, ids, i, c, used, s) ==
  IF i > Len(ids) THEN [st |-> next, hang |-> FALSE]
  ELSE IF ~Has(next, ids[i]) \/ next.at[ids[i]].kind # "Object"
       THEN TagLoop(snap, next, ids, i + 1, c, used, s)
  ELSE TagStep(snap, next, ids, i, c, used, s,
               TagProbe(s, buildTokenMapForObject(snap, ids[i], s.custom), c, used,
                        Cardinality(used) + 1))

\* an updater that does not return leaves the tree as it was
TagsCommit(ids, s, r) ==
  /\ CommitTo(Then(Handler(nodes, nextUid), IF r.hang THEN nodes ELSE r.st),
              IF r.hang THEN "hung" ELSE "ready")
  /\ last' = [op |-> "bulkApplyTags", before |-> nodes, ids |-> ids, unique |-> s.skipExisting]

\* the Apply Tags button of the bulk panel on the selected Objects
bulkApplyTags ==
  /\ pc = "ready"
  /\ ops < MaxTagOps
  /\ \E ids \in DistinctSeqs(ObjectIds(nodes), MaxSel), s \in TagSettings :
       TagsCommit(ids, s,
                  TagLoop(nodes, nodes, ids, 1, Counters(s.start, <<>>),
                          IF s.skipExisting THEN existingTagsSet(nodes) ELSE {}, s))
  /\ UNCHANGED <<selectedId, targets, timers, ifcModel>>

NextTags ==
  \/ openAddObjectTags
  \/ createObjectBatch
  \/ bulkApplyTags

SpecTags == InitTags /\ [][NextTags]_vars

\* the tags of the Objects the last call tagged, in the order it tagged them
Assigned == [i \in 1..Len(last.ids) |-> nodes.at[last.ids[i]].tag]

\* C16: when a batch creation with tags or a bulk tag generation with
\* uniqueness enabled has completed, the tags it assigned differ from every
\* tag an Object carried before the call and from each other
C16_AssignedTagsUnique ==
  (pc = "ready" /\ last.op \in {"createObject", "bulkApplyTags"} /\ last.unique) =>
    /\ \A i \in 1..Len(last.ids) :
         Assigned[i] \notin {last.before.at[o].tag :
                               o \in {k \in ObjectIds(last.before) : Truthy(last.before.at[k].tag)}}
    /\ \A i, j \in 1..Len(last.ids) : i # j => Assigned[i] # Assigned[j]

\* C16 witness: a bulk tag generation over the two Objects that carried
\* PROXY-001 and PROXY-002 skipped both tags
C16_Witness ==
  /\ pc = "ready"
  /\ last.op = "bulkApplyTags"
  /\ last.unique
  /\ last.ids = <<"obj_s1", "obj_s2">>
  /\ last.before.at["obj_s1"].tag = "PROXY-001"
  /\ nodes.at["obj_s1"].tag = "PROXY-003"
  /\ nodes.at["obj_s2"].tag = "PROXY-004"

\* C17: the collision-retry loop of tag generation always stops
C17_TagLoopStops == pc # "hung"

\* C18: a batch creation with tags and uniqueness disabled gives the i-th
\* Object (i = 0, 1, ...) the pattern rendered with start + i * step; three
\* pumps with {CLASS}-{N:3}, start 1, step 1 get PUMP-001, PUMP-002, PUMP-003
C18_BatchCounter ==
  (pc = "ready" /\ last.op = "createObject" /\ ~last.unique) =>
    /\ Len(last.ids) = last.form.count
    /\ \A i \in 1..Len(last.ids) :
         Assigned[i] = applyPattern(last.form.tagPattern,
                                    [CLASS |-> normalizeClassShort(last.form.ifcClass),
                                     CUSTOM |-> "X"],
                                    last.form.start + (i - 1) * last.form.step)
    /\ ( /\ last.form.ifcClass = "IfcPump" /\ last.form.count = 3
         /\ last.form.tagPattern = DefaultBatchTagPattern
         /\ last.form.start = 1 /\ last.form.step = 1 )
       => Assigned = <<"PUMP-001", "PUMP-002", "PUMP-003">>

\* C18 witness: three pumps created with {CLASS}-{N:3}, start 1, step 1 and
\* uniqueness disabled
C18_Witness ==
  /\ pc = "ready"
  /\ last.op = "createObject"
  /\ ~last.unique
  /\ last.form.ifcClass = "IfcPump"
  /\ last.form.tagPattern = DefaultBatchTagPattern
  /\ last.form.start = 1
  /\ last.form.step = 1
  /\ Len(last.ids) = 3

----------------------------------------------------------------------------
(* SpecPsets: the property editors setPsetProperty and deletePsetProperty *)

\* handlers run in one behaviour
MaxPsetOps == 2

\* psets.findIndex((p) => p.name === psetName), 0 for -1
FindIndex(psets, psetName) ==
  IF \E i \in 1..Len(psets) : psets[i].name = psetName
  THEN CHOOSE i \in 1..Len(psets) :
         /\ psets[i].name = psetName
         /\ \A j \in 1..(i - 1) : psets[j].name # psetName
  ELSE 0

\* an updater that writes the new pair over the whole set
WithPsetProperty_Mutant(prev, objectId, psetName, k, value) ==
  IF ~Has(prev, objectId) \/ prev.at[objectId].kind # "Object" THEN prev
  ELSE Put(prev, objectId,
           [prev.at[objectId] EXCEPT
              !.psets = IF FindIndex(@, psetName) = 0 THEN Append(@, Pset(psetName, k :> value))
                        ELSE [@ EXCEPT ![FindIndex(@, psetName)] = Pset(psetName, k :> value)]])

\* the updater of setPsetProperty
WithPsetProperty(prev, objectId, psetName, k, value) ==
  IF ~Has(prev, objectId) \/ prev.at[objectId].kind # "Object" THEN prev
  ELSE Put(prev, objectId,
           [prev.at[objectId] EXCEPT
              !.psets = IF FindIndex(@, psetName) = 0 THEN Append(@, Pset(psetName, k :> value))
                        ELSE [@ EXCEPT ![FindIndex(@, psetName)] =
                                Pset(@.name, (k :> value) @@ @.props)]])

\* the updater of deletePsetProperty
WithoutPsetProperty(prev, objectId, psetName, k) ==
  IF ~Has(prev, objectId) \/ prev.at[objectId].kind # "Object" THEN prev
  ELSE IF FindIndex(prev.at[objectId].psets, psetName) = 0 THEN prev
  ELSE Put(prev, objectId,
           [prev.at[objectId] EXCEPT
              !.psets[FindIndex(prev.at[objectId].psets, psetName)] =
                Pset(@.name, [x \in DOMAIN @.props \ {k} |-> @.props[x]])])

\* the arguments the editors are called with: the id of a node of any kind
\* or of none, a set name, a key as typed, a value
PsetEdits ==
  {[objectId |-> o, psetName |-> p, key |-> k, value |-> v] :
     o \in {"obj_v", "obj_w", "storey_1", "ghost"},
     p \in {"Pset_AssetCustom", "Pset_Common"},
     k \in {"System", " System ", "Medium", " "},
     v \in {"Piping", ""}}

InitPsets ==
  /\ nodes \in {ExportTree("Project", p1, "IfcPump", <<AssetPset>>) :
                  p1 \in {<<>>, <<AssetPset>>,
                          <<Pset("Pset_AssetCustom", ("System" :> "HVAC") @@ ("Medium" :> "42")),
                            Pset("Pset_Common", "Rating" :> "true")>>}}
  /\ selectedId = "root"
  /\ targets = NoTargets
  /\ nextUid = 0
  /\ timers = <<>>
  /\ pc = "ready"
  /\ last = [op |-> "load", before |-> nodes,
             edit |-> [objectId |-> "ghost", psetName |-> "", key |-> "", value |-> ""]]
  /\ ops = 0
  /\ ifcModel = NoModel

setPsetProperty ==
  /\ pc = "ready"
  /\ ops < MaxPsetOps
  /\ \E e \in PsetEdits :
       /\ IF Trim(e.key) = "" THEN Commit(Handler(nodes, nextUid))
          ELSE Commit(Then(Handler(nodes, nextUid),
                           WithPsetProperty(nodes, e.objectId, e.psetName, Trim(e.key), e.value)))
       /\ last' = [op |-> "setPsetProperty", before |-> nodes, edit |-> e]
  /\ UNCHANGED <<selectedId, targets, timers, ifcModel>>

deletePsetProperty ==
  /\ pc = "ready"
  /\ ops < MaxPsetOps
  /\ \E e \in {x \in PsetEdits : x.value = ""} :
       /\ IF Trim(e.key) = "" THEN Commit(Handler(nodes, nextUid))
          ELSE Commit(Then(Handler(nodes, nextUid),
                           WithoutPsetProperty(nodes, e.objectId, e.psetName, Trim(e.key))))
       /\ last' = [op |-> "deletePsetProperty", before |-> nodes, edit |-> e]
  /\ UNCHANGED <<selectedId, targets, timers, ifcModel>>

NextPsets ==
  \/ setPsetProperty
  \/ deletePsetProperty

SpecPsets == InitPsets /\ [][NextPsets]_vars

\* the property sets of the edited Object before and after the last call
PsetsBefore == last.before.at[last.edit.objectId].psets

PsetsAfter == nodes.at[last.edit.objectId].psets

\* the last call was made on a node that is an Object
OnObject ==
  /\ Has(last.before, last.edit.objectId)
  /\ last.before.at[last.edit.objectId].kind = "Object"

\* nothing but the property sets of the edited Object differs
OnlyPsetsDiffer ==
  /\ nodes.ord = last.before.ord
  /\ \A id \in Keys(nodes) :
       [nodes.at[id] EXCEPT !.psets = <<>>] = [last.before.at[id] EXCEPT !.psets = <<>>]
  /\ \A id \in Keys(nodes) \ {last.edit.objectId} : nodes.at[id].psets = last.before.at[id].psets

\* after the call the set named psetName maps key k to the value; it was
\* appended if the Object did not have it; every other set and every other
\* key of the set is as before
SetsKey(k) ==
  LET idx == FindIndex(PsetsAfter, last.edit.psetName)
      old == FindIndex(PsetsBefore, last.edit.psetName)
  IN /\ idx > 0
     /\ k \in DOMAIN PsetsAfter[idx].props
     /\ PsetsAfter[idx].props[k] = last.edit.value
     /\ IF old = 0
        THEN /\ PsetsAfter = Append(PsetsBefore, PsetsAfter[idx])
             /\ DOMAIN PsetsAfter[idx].props = {k}
        ELSE /\ Len(PsetsAfter) = Len(PsetsBefore)
             /\ \A i \in 1..Len(PsetsBefore) : i # idx => PsetsAfter[i] = PsetsBefore[i]
             /\ DOMAIN PsetsAfter[idx].props = DOMAIN PsetsBefore[idx].props \cup {k}
             /\ \A x \in DOMAIN PsetsBefore[idx].props \ {k} :
                  PsetsAfter[idx].props[x] = PsetsBefore[idx].props[x]

\* the Object has no set of that name, or its set of that name lacks key k
LacksKey(k) ==
  \/ FindIndex(PsetsBefore, last.edit.psetName) = 0
  \/ k \notin DOMAIN PsetsBefore[FindIndex(PsetsBefore, last.edit.psetName)].props

\* C19 as stated, with the key as it is passed: after setPsetProperty on
\* an Object the named set maps the key to the value and nothing else
\* differs; deletePsetProperty of a key or set the Object lacks changes nothing
C19_PsetEditsAsStated ==
  /\ pc # "crashed"
  /\ (last.op = "setPsetProperty" /\ OnObject) => (SetsKey(last.edit.key) /\ OnlyPsetsDiffer)
  /\ (last.op = "deletePsetProperty" /\ OnObject /\ LacksKey(last.edit.key))
       => nodes = last.before

\* C19 with the key taken after trim: a call with a blank key changes
\* nothing; setPsetProperty with a non-blank key makes the named set map the
\* trimmed key to the value, appending the set if the Object lacks it, and
\* nothing else differs; deletePsetProperty of a trimmed key or of a set the
\* Object lacks changes nothing; neither raises an error
C19_PsetEdits ==
  /\ pc # "crashed"
  /\ (last.op \in {"setPsetProperty", "deletePsetProperty"} /\ Trim(last.edit.key) = "")
       => nodes = last.before
  /\ (last.op = "setPsetProperty" /\ OnObject /\ Trim(last.edit.key) # "")
       => (SetsKey(Trim(last.edit.key)) /\ OnlyPsetsDiffer)
  /\ (last.op = "deletePsetProperty" /\ OnObject /\ LacksKey(Trim(last.edit.key)))
       => nodes = last.before

\* C19 witness: setPsetProperty created Pset_Common on an Object that had
\* only its empty Pset_AssetCustom, and a later deletePsetProperty of a key
\* the new set lacks left the tree as it was
C19_Witness ==
  /\ last.op = "deletePsetProperty"
  /\ last.edit.objectId = "obj_v"
  /\ last.edit.psetName = "Pset_Common"
  /\ last.edit.key = "Medium"
  /\ PsetsBefore = <<AssetPset, Pset("Pset_Common", "System" :> "Piping")>>
  /\ nodes = last.before

----------------------------------------------------------------------------
(* SpecGuid: ifcGuidFromUuid. A string is held as the sequence of its       *)
(* characters.                                                              *)

\* "0123456789ABCDEFGHIJKLMNOPQRSTUVWXYZabcdefghijklmnopqrstuvwxyz_$"
Base64Chars ==
  <<"0", "1", "2", "3", "4", "5", "6", "7", "8", "9",
    "A", "B", "C", "D", "E", "F", "G", "H", "I", "J", "K", "L", "M",
    "N", "O", "P", "Q", "R", "S", "T", "U", "V", "W", "X", "Y", "Z",
    "a", "b", "c", "d", "e", "f", "g", "h", "i", "j", "k", "l", "m",
    "n", "o", "p", "q", "r", "s", "t", "u", "v", "w", "x", "y", "z", "_", "$">>

\* chars[n] ?? "0"
toBase64Chars(n) == IF n \in 0..(Len(Base64Chars) - 1) THEN Base64Chars[n + 1] ELSE "0"

\* the value of a hex digit, -1 for any other character
HexDigit(c) ==
  CASE c \in {"0", "1", "2", "3", "4", "5", "6", "7", "8", "9"} ->
         CHOOSE d \in 0..9 : ToString(d) = c
    [] c \in {"a", "A"} -> 10
    [] c \in {"b", "B"} -> 11
    [] c \in {"c", "C"} -> 12
    [] c \in {"d", "D"} -> 13
    [] c \in {"e", "E"} -> 14
    [] c \in {"f", "F"} -> 15
    [] OTHER -> -1

\* parseInt(pair, 16) for a string of two characters: leading white space
\* and a sign are skipped, then the longest run of hex digits is read; -1
\* stands for NaN
parseInt16(c1, c2) ==
  IF HexDigit(c1) >= 0
  THEN IF HexDigit(c2) >= 0 THEN 16 * HexDigit(c1) + HexDigit(c2) ELSE HexDigit(c1)
  ELSE IF c1 \in {" ", "+"} /\ HexDigit(c2) >= 0 THEN HexDigit(c2)
  ELSE -1

\* bytes[i] = value: a Uint8Array element stores NaN as 0
ToUint8(v) == IF v < 0 THEN 0 ELSE v % 256

\* uuid.replace(/-/g, "")
RemoveHyphens(uuid) == SelectSeq(uuid, LAMBDA c : c # "-")

\* bit j (1 = most significant) of the 128-bit number built from the bytes
NumBit(bytes, j) == (bytes[((j - 1) \div 8) + 1] \div (2 ^ (7 - ((j - 1) % 8)))) % 2

\* bit j of the number seen as 22 groups of 6 bits: four zero bits on top
GroupBit(bytes, j) == IF j <= 4 THEN 0 ELSE NumBit(bytes, j - 4)

\* Number((num >> BigInt((21 - i) * 6)) & mask), i = 0..21
GroupValue(bytes, i) ==
  32 * GroupBit(bytes, 6 * i + 1) + 16 * GroupBit(bytes, 6 * i + 2)
  + 8 * GroupBit(bytes, 6 * i + 3) + 4 * GroupBit(bytes, 6 * i + 4)
  + 2 * GroupBit(bytes, 6 * i + 5) + GroupBit(bytes, 6 * i + 6)

Compressed(bytes) == [i \in 1..22 |-> toBase64Chars(GroupValue(bytes, i - 1))]

\* the result, or the Error thrown
ifcGuidFromUuid(uuid) ==
  IF Len(RemoveHyphens(uuid)) # 32 THEN [ok |-> FALSE, text |-> <<>>]
  ELSE [ok |-> TRUE,
        text |-> Compressed([i \in 1..16 |->
                               ToUint8(parseInt16(RemoveHyphens(uuid)[2 * i - 1],
                                                  RemoveHyphens(uuid)[2 * i]))])]

\* n copies of the character c
Fill(c, n) == [i \in 1..n |-> c]

\* the 8-4-4-4-12 layout over 32 characters
Hyphenated(hex) ==
  SubSeq(hex, 1, 8) \o <<"-">> \o SubSeq(hex, 9, 12) \o <<"-">> \o SubSeq(hex, 13, 16)
  \o <<"-">> \o SubSeq(hex, 17, 20) \o <<"-">> \o SubSeq(hex, 21, 32)

\* inputs: runs of one character of 31 to 33 characters, bare and
\* hyphenated; alternating hex digits; a hex string with one other
\* character put at some position; the empty string
Uuids ==
  {<<>>} \cup
  {Fill(c, n) : c \in {"0", "7", "a", "F", "g", " "}, n \in 31..33} \cup
  {Hyphenated(Fill(c, 32)) : c \in {"0", "7", "a", "F", "g"}} \cup
  {Hyphenated([i \in 1..32 |-> IF i % 2 = 1 THEN a ELSE b]) :
     a \in {"0", "3", "c", "F"}, b \in {"1", "8", "e"}} \cup
  {[Fill(c, 32) EXCEPT ![p] = x] :
     c \in {"f", "5"}, p \in {1, 2, 17, 32}, x \in {"g", "x", " ", "+", "-", "Z"}}

InitGuid ==
  /\ nodes = EmptyObj
  /\ selectedId = "root"
  /\ targets = NoTargets
  /\ nextUid = 0
  /\ timers = <<>>
  /\ pc = "ready"
  /\ \E uuid \in Uuids : last = [uuid |-> uuid, result |-> [ok |-> FALSE, text |-> <<>>]]
  /\ ops = 0
  /\ ifcModel = NoModel

\* a call of ifcGuidFromUuid(uuid)
compress ==
  /\ pc = "ready"
  /\ last' = [last EXCEPT !.result = ifcGuidFromUuid(last.uuid)]
  /\ pc' = IF last'.result.ok THEN "returned" ELSE "threw"
  /\ UNCHANGED <<nodes, selectedId, targets, nextUid, timers, ops, ifcModel>>

NextGuid == compress

SpecGuid == InitGuid /\ [][NextGuid]_vars

\* the input is 32 hex digits once its hyphens are removed
ReducesToHex32(uuid) ==
  /\ Len(RemoveHyphens(uuid)) = 32
  /\ \A i \in 1..32 : HexDigit(RemoveHyphens(uuid)[i]) >= 0

\* C20: for an input that reduces to 32 hex digits ifcGuidFromUuid returns
\* 22 characters of the 64-symbol alphabet; for any other input it fails
C20_GuidLengthAndErrors ==
  pc \in {"returned", "threw"} =>
    IF ReducesToHex32(last.uuid)
    THEN /\ last.result.ok
         /\ Len(last.result.text) = 22
         /\ \A i \in 1..22 : last.result.text[i] \in Range(Base64Chars)
    ELSE ~last.result.ok

----------------------------------------------------------------------------
(* Duplicates in children lists *)

\* no id occurs twice in the list
NoRepeat(s) == \A i, j \in 1..Len(s) : s[i] = s[j] => i = j

\* C21: after any sequence of mutation handlers from the initial tree no
\* node's children list holds the same id twice, also when an Object is moved
\* to the ClassGroup it is already in
C21_NoDuplicateChildren == \A id \in Keys(nodes) : NoRepeat(nodes.at[id].children)

----------------------------------------------------------------------------
(* Imports into a tree the user has edited *)

\* the nodes that list id among their children
ListedBy(n, id) == {p \in Keys(n) : Includes(n.at[p].children, id)}

\* every node but root is listed by exactly one node, the one its parentId names
ListedByParentOnly(n) ==
  \A id \in Keys(n) \ {"root"} : ListedBy(n, id) = {n.at[id].parentId}

\* the step is the commit of an import's result
ImportCommitted == ifcModel.busy /\ ~ifcModel'.busy /\ nodes' # nodes

\* the hierarchy the loader reports starts at an IfcProject
ProjectRooted(items) == Len(items) > 0 /\ items[1].type = "IFCPROJECT"

\* C22: in the tree the import of a Project-rooted model commits, also into
\* a tree where an imported Building, Storey or Object was moved to another
\* parent, every node but root is listed by exactly one node, the one named
\* by its parentId
C22_ReimportSingleParent ==
  [][ImportCommitted /\ ProjectRooted(ifcModel.items) => ListedByParentOnly(nodes')]_vars

\* C23: a node committed to the host tree while an import was in flight is
\* still in the host tree once the import's result is committed
C23_InFlightMutationKept ==
  [][ImportCommitted =>
       \A id \in Keys(nodes) \ Keys(ifcModel.snap) : Has(nodes', id)]_vars

----------------------------------------------------------------------------
(* The repair pass: root, root's children, frame, orphans *)

\* the node under key id is a root: kind Root and no parentId
IsRoot(n, id) == n.at[id].kind = "Root" /\ ~Truthy(n.at[id].parentId)

\* C24: after repair of any snapshot the node under key root has kind Root
\* and no parentId and is the only such node; the repair of the empty
\* snapshot is that one node with empty children
C24_RootAfterRepair ==
  pc = "repaired" =>
    /\ Has(nodes, "root")
    /\ IsRoot(nodes, "root")
    /\ \A id \in Keys(nodes) : IsRoot(nodes, id) => id = "root"
    /\ last.before = EmptyObj => nodes = Put(EmptyObj, "root", RootNode)


\* the keys under which the map holds a node of kind Project
ProjectKeys(n) == {k \in Keys(n) : n.at[k].kind = "Project"}

\* the children of the snapshot's root that name a node of kind Project
QualifyingRootChildren(before) ==
  IF Has(before, "root")
  THEN SelectSeq(before.at["root"].children, LAMBDA cid : cid \in ProjectKeys(before))
  ELSE <<>>

\* C25: after repair root.children names only existing nodes of kind Project:
\* the snapshot root's children restricted to such ids, in their order, when
\* one qualifies, and else all nodes of kind Project in the map
C25_RootChildrenProjects ==
  pc = "repaired" =>
    /\ \A i \in 1..Len(nodes.at["root"].children) :
         nodes.at["root"].children[i] \in ProjectKeys(nodes)
    /\ nodes.at["root"].children =
         IF Len(QualifyingRootChildren(last.before)) > 0
         THEN QualifyingRootChildren(last.before)
         ELSE SelectSeq(nodes.ord, LAMBDA k : k \in ProjectKeys(nodes))


\* the node with its children list and parentId put back to those of `as`
ButLinks(node, as) == [node EXCEPT !.children = as.children, !.parentId = as.parentId]

\* C26: repair changes nothing but children lists and parentIds: it removes
\* no entry and adds none but root, every field of a node other than those
\* two is as it was, and a parentId that names no entry is cleared
C26_RepairFrame ==
  pc = "repaired" =>
    /\ Keys(last.before) \subseteq Keys(nodes)
    /\ Keys(nodes) \subseteq Keys(last.before) \cup {"root"}
    /\ \A id \in Keys(last.before) :
         /\ ButLinks(nodes.at[id], last.before.at[id]) = last.before.at[id]
         /\ Truthy(last.before.at[id].parentId) /\ ~Has(last.before, last.before.at[id].parentId)
              => nodes.at[id].parentId = Undef

\* C26 witness: the entry b, with tag, class, property set and document, had
\* a parentId naming no entry, and repair has cleared it
C26_Witness ==
  /\ pc = "repaired"
  /\ Has(last.before, "b")
  /\ last.before.at["b"].parentId = "ghost"
  /\ last.before.at["b"].docs = <<"doc_1">>
  /\ nodes.at["b"].parentId = Undef
  /\ nodes.at["b"].docs = <<"doc_1">>
  /\ nodes.at["b"].tag = "T-1"


\* C27: an entry other than root that no node of the snapshot lists among its
\* children is not in the map after repair
C27_OrphansSwept ==
  pc = "repaired" =>
    \A id \in Keys(last.before) \ {"root"} :
      ListedBy(last.before, id) = {} => ~Has(nodes, id)

----------------------------------------------------------------------------
(* Containment order *)

\* Root -> Project -> Site -> Building -> Storey -> ClassGroup -> Object
KindOrder == <<"Root", "Project", "Site", "Building", "Storey", "ClassGroup", "Object">>

\* the place of a kind in the containment order
Rank(kind) == CHOOSE i \in 1..Len(KindOrder) : KindOrder[i] = kind

\* the node's parent exists and has the kind just before the node's own
ParentOneKindUp(n, id) ==
  /\ Has(n, n.at[id].parentId)
  /\ Rank(n.at[n.at[id].parentId].kind) + 1 = Rank(n.at[id].kind)

\* C28: after any sequence of ensure, add, create and move handlers from the
\* initial tree every node but root has a parent of the kind immediately
\* before its own in the containment order, and every Object has no children
C28_CanonicalContainment ==
  \A id \in Keys(nodes) :
    /\ id # "root" => ParentOneKindUp(nodes, id)
    /\ nodes.at[id].kind = "Object" => nodes.at[id].children = <<>>

\* C28 witness: handlers have built a Building, a Storey and a ClassGroup and
\* an Object sits in that group, away from the initial storey_1
C28_Witness ==
  /\ nextUid >= 3
  /\ \E id \in ObjectIds(nodes) :
       /\ nodes.at[nodes.at[id].parentId].parentId # "storey_1"
       /\ nodes.at[nodes.at[nodes.at[id].parentId].parentId].parentId # "building_1"

----------------------------------------------------------------------------
(* SpecRoundTrip: a model imported into an empty tree, then exported *)

\* most nodes of an enumerated hierarchy
MaxTripItems == 2

\* every hierarchy of up to MaxTripItems nodes, and three files: the full
\* spatial chain with two elements, a Project with a Building and no Site,
\* a Site with a Storey and no Building
TripModels ==
  UNION {Hierarchies(n) : n \in 1..MaxTripItems} \cup
  {<<Item(1, "IFCPROJECT", 0, TRUE), Item(2, "IFCSITE", 1, TRUE), Item(3, "IFCBUILDING", 2, TRUE),
     Item(4, "IFCBUILDINGSTOREY", 3, TRUE), Item(5, "IFCWALL", 4, TRUE),
     Item(6, "IFCWALL", 4, FALSE)>>,
   <<Item(1, "IFCPROJECT", 0, TRUE), Item(2, "IFCBUILDING", 1, TRUE),
     Item(3, "IFCBUILDINGSTOREY", 2, TRUE), Item(4, "IFCWALL", 3, TRUE)>>,
   <<Item(1, "IFCPROJECT", 0, TRUE), Item(2, "IFCSITE", 1, TRUE),
     Item(3, "IFCBUILDINGSTOREY", 2, TRUE), Item(4, "IFCWALL", 3, TRUE)>>}

InitRoundTrip ==
  /\ nodes \in {EmptyObj, sanitizeNodes(EmptyObj)}
  /\ \E items \in TripModels, modelID \in ModelIds :
       ifcModel = [NoModel EXCEPT !.items = items, !.modelID = modelID]
  /\ selectedId = "root"
  /\ targets = NoTargets
  /\ nextUid = 0
  /\ timers = <<>>
  /\ pc = "loaded"
  /\ last = [op |-> "load", result |-> [ok |-> FALSE, lines |-> <<>>, elements |-> <<>>]]
  /\ ops = 0

\* handleImportIfc: setNodes(sanitizeNodes(await importIfcIntoCoordinator(...)))
importIfc ==
  /\ pc = "loaded"
  /\ nodes' = sanitizeNodes(importIfcIntoCoordinator(ifcModel.modelID, ifcModel.items, nodes))
  /\ last' = [last EXCEPT !.op = "import"]
  /\ pc' = "ready"
  /\ UNCHANGED <<selectedId, targets, nextUid, timers, ops, ifcModel>>

NextRoundTrip == importIfc \/ exportIfc

SpecRoundTrip == InitRoundTrip /\ [][NextRoundTrip]_vars

\* the element records written for the Object
ElementsOf(result, id) ==
  {i \in 1..Len(result.elements) : result.elements[i].node = id}

\* record el is listed by a containment record that ends in a storey record
ContainedInStorey(result, el) ==
  \E i \in 1..Len(result.lines) :
    LET rec == result.lines[i].text.rec
    IN /\ rec.entity = "IFCRELCONTAINEDINSPATIALSTRUCTURE"
       /\ \E j \in 2..(Len(rec.refs) - 1) : rec.refs[j] = el
       /\ result.lines[rec.refs[Len(rec.refs)]].text.rec.entity = "IFCBUILDINGSTOREY"

\* C29: when a tree imported into an empty tree holds a single Project, its
\* export has exactly one element record for every Object of the tree, and
\* a containment record of a storey lists that record
C29_RoundTripKeepsElements ==
  pc \in {"exported", "failed"} /\ Cardinality(ProjectKeys(nodes)) = 1 =>
    \A id \in ObjectIds(nodes) :
      /\ last.result.ok
      /\ Cardinality(ElementsOf(last.result, id)) = 1
      /\ \A i \in ElementsOf(last.result, id) :
           ContainedInStorey(last.result, last.result.elements[i].el)

----------------------------------------------------------------------------
(* Objects and the class of their group *)

\* C30: in every tree reached by object creation, moves, class changes and
\* imports each Object's ifcClass is the ifcClass of the ClassGroup its
\* parentId names
C30_ObjectClassIsGroupClass ==
  \A id \in ObjectIds(nodes) :
    /\ Has(nodes, nodes.at[id].parentId)
    /\ nodes.at[nodes.at[id].parentId].kind = "ClassGroup"
    /\ nodes.at[id].ifcClass = nodes.at[nodes.at[id].parentId].ifcClass

====
